---- MODULE Spec2Model ----
(***************************************************************************)
(* The photo ingestion and image-variant pipeline of the photo API         *)
(* (services/imageProcessor): processImage, movePhotoToCollection and       *)
(* deleteImageVariants acting on the directory tree under COLLECTIONS_BASE *)
(* and on the upload temp directory.                                       *)
(*                                                                         *)
(* Every awaited filesystem or image operation is one step of the model,   *)
(* so calls made by different callers interleave at exactly the points     *)
(* where the event loop can switch.  Every such operation can fail         *)
(* (the `fail` input of its action): the code's reaction to the rejection  *)
(* is what the action models.                                              *)
(***************************************************************************)
EXTENDS Integers, Sequences, FiniteSets, TLC

VARIABLES
  disk,      \* the tree under COLLECTIONS_BASE: path (sequence of segments) -> node
  tmp,       \* the files in TEMP_DIR: upload (named by item) -> image
  call,      \* per caller: the pipeline call in flight and its position
  last,      \* per item and per caller: the most recently completed call and how it ended
  ingested,  \* the items for which processImage has been called
  ncalls,    \* the number of pipeline calls made so far
  answer,    \* the most recent read: the function applied, its arguments, its result
  photos,    \* the photos table: photo id -> record
  collections, \* the collections table: collection id -> name
  req,       \* per request slot: the HTTP request in flight or answered
  auth,      \* apiKeyAuth: the clock, the stored setting, the module's cache, the requests
  carousel   \* the featured page's component: its fields and the browser's timers

vars == <<disk, tmp, call, last, ingested, ncalls, answer, photos, collections, req,
          auth, carousel>>

----------------------------------------------------------------------------
(* Bounds *)

\* Pipeline calls made in one behaviour.
MaxCalls == 4

\* The clock of the middleware's specification: the length of a tick in
\* milliseconds and the number of ticks in a behaviour.
TickMs == 20000
MaxTicks == 4

\* Runs of the set-api-key script in a behaviour.
MaxKeyChanges == 2

\* The longest list of featured photos the page loads.
MaxPhotos == 4

\* Item identities (photo ids), collection ids and request slots.
Items == {"p1", "p2"}
CollectionIds == {"c1", "c2"}
CallerNames == <<"k1", "k2">>
Callers == {CallerNames[i] : i \in 1..Len(CallerNames)}

\* The items the calls of Spec are made on.  A call never touches another
\* item's directory, and Spec admits one call per item at a time (the
\* pipeline is the sole writer of an item's subtree).
SoloItems == {"p1"}

\* collectionId: string | null.  The empty string is a string the code treats
\* like null.
NULL == "<null>"
GroupArgs == CollectionIds \cup {NULL, ""}

\* The uploads the model ingests: raw pixel grid and EXIF orientation
\* (o = 0: no orientation tag).
Images ==
  { [w |-> 4000, h |-> 3000, o |-> 1],
    [w |-> 3000, h |-> 4000, o |-> 6] }

----------------------------------------------------------------------------
(* Configuration and pure helpers *)

\* 0 stands for a field that is not set (JavaScript tests them for truthiness).
IMAGE_SIZES ==
  << [name |-> "thumb",    height |-> 300, width |-> 0, longEdge |-> 0,    quality |-> 80],
     [name |-> "featured", height |-> 600, width |-> 0, longEdge |-> 0,    quality |-> 85],
     [name |-> "display",  height |-> 0,   width |-> 0, longEdge |-> 1600, quality |-> 85] >>

originalFilename == "original.jpg"

\* Variants written under the extension of the original.
VariantFile_jpg(name) == name \o ".jpg"

VariantFile(name) == name \o ".webp"

\* getPhotoDir with the photo id left out of the path: one directory per group.
getPhotoDir_perGroup(collectionId, photoId) ==
  LET collectionDir == IF collectionId \in {NULL, ""} THEN "_uncategorized"
                       ELSE collectionId
  IN  <<collectionDir, "p1">>

\* getPhotoDir with `collectionId ?? '_uncategorized'`: only null falls back.
getPhotoDir_nullish(collectionId, photoId) ==
  LET collectionDir == IF collectionId = NULL THEN "_uncategorized"
                       ELSE collectionId
  IN  <<collectionDir, photoId>>

\* Path of the item directory, relative to COLLECTIONS_BASE.
getPhotoDir(collectionId, photoId) ==
  LET collectionDir == IF collectionId \in {NULL, ""} THEN "_uncategorized"
                       ELSE collectionId
  IN  <<collectionDir, photoId>>

Segs == {getPhotoDir(g, "p1")[1] : g \in GroupArgs}

\* path.join(dir, name) and path.dirname(dir)
Join(dir, name) == Append(dir, name)
Dirname(p) == SubSeq(p, 1, Len(p) - 1)

DirNode == [kind |-> "dir", w |-> 0, h |-> 0, o |-> 0]
JpgNode(img) == [kind |-> "jpg", w |-> img.w, h |-> img.h, o |-> img.o]
WebpNode(d) == [kind |-> "webp", w |-> d.width, h |-> d.height, o |-> 0]

NoValue == [width |-> -1, height |-> -1]

Exists(d, p) == p \in DOMAIN d

IsPrefix(p, q) == Len(p) <= Len(q) /\ SubSeq(q, 1, Len(p)) = p

\* The paths at or below p.
Under(d, p) == {q \in DOMAIN d : IsPrefix(p, q)}

Restrict(d, S) == [q \in S |-> d[q]]

\* The part of the tree that belongs to an item: its directory under every
\* group, with the files in it.
ItemTree(d, id) == Restrict(d, {q \in DOMAIN d : Len(q) >= 2 /\ q[2] = id})

\* The names of the files in directory dir.
FilesIn(d, dir) == {q[Len(q)] : q \in {r \in DOMAIN d : Len(r) = Len(dir) + 1 /\ IsPrefix(dir, r)}}

----------------------------------------------------------------------------
(* Filesystem primitives (fs.promises) on a tree d *)

\* fsp.mkdir(dir, { recursive: true }): creates dir and its missing parents,
\* succeeds when they exist.
Mkdirp(d, dir) ==
  LET missing == {SubSeq(dir, 1, n) : n \in 1..Len(dir)} \ DOMAIN d
  IN  [q \in DOMAIN d \cup missing |-> IF q \in DOMAIN d THEN d[q] ELSE DirNode]

\* Writing a file needs its directory; an existing file is replaced.
CanWrite(d, p) == Exists(d, Dirname(p)) /\ d[Dirname(p)].kind = "dir"

WriteFile(d, p, node) == [q \in DOMAIN d \cup {p} |-> IF q = p THEN node ELSE d[q]]

\* fsp.rename(old, new) of a directory: old must exist, the parent of new must
\* exist, and new may exist only as an empty directory (which is replaced).
CanRename(d, old, new) ==
  /\ Exists(d, old)
  /\ Exists(d, Dirname(new))
  /\ Exists(d, new) => Under(d, new) = {new}

Rebase(q, old, new) == new \o SubSeq(q, Len(old) + 1, Len(q))

\* Rename as a copy: the tree also stays at old.
Rename_copy(d, old, new) ==
  LET moved == Under(d, old)
      back(q) == CHOOSE r \in moved : Rebase(r, old, new) = q
  IN  [q \in DOMAIN d \cup {Rebase(r, old, new) : r \in moved} |->
         IF q \in DOMAIN d THEN d[q] ELSE d[back(q)]]

Rename(d, old, new) ==
  LET moved == Under(d, old)
      kept == DOMAIN d \ (moved \cup {new})
      back(q) == CHOOSE r \in moved : Rebase(r, old, new) = q
  IN  [q \in kept \cup {Rebase(r, old, new) : r \in moved} |->
         IF q \in kept THEN d[q] ELSE d[back(q)]]

\* fsp.rm(dir, { recursive: true, force: true }): removes dir and everything
\* under it; force makes a missing dir a success.
RmRecursiveForce(d, dir) == Restrict(d, DOMAIN d \ Under(d, dir))

----------------------------------------------------------------------------
(* Image helpers *)

\* getOrientedDimensions swapping for the orientations above 5 only.
getOrientedDimensions_above5(node) ==
  LET rawWidth == node.w
      rawHeight == node.h
      orientation == IF node.o = 0 THEN 1 ELSE node.o
  IN  IF orientation > 5 /\ orientation <= 8
      THEN [width |-> rawHeight, height |-> rawWidth]
      ELSE [width |-> rawWidth, height |-> rawHeight]

\* getOrientedDimensions: sharp(path).metadata(), width and height swapped for
\* the orientations 5..8.
getOrientedDimensions(node) ==
  LET rawWidth == node.w
      rawHeight == node.h
      orientation == IF node.o = 0 THEN 1 ELSE node.o
  IN  IF orientation >= 5 /\ orientation <= 8
      THEN [width |-> rawHeight, height |-> rawWidth]
      ELSE [width |-> rawWidth, height |-> rawHeight]

\* No rotate() in the pipeline: the raw pixel grid.
AutoRotate_raw(node) == [width |-> node.w, height |-> node.h]

\* sharp().rotate(): the pixel grid after applying the EXIF orientation.
AutoRotate(node) ==
  IF node.o \in {5, 6, 7, 8} THEN [width |-> node.h, height |-> node.w]
  ELSE [width |-> node.w, height |-> node.h]

\* ResizeOptions with the long edge always taken to be the width.
ResizeOptions_longEdgeIsWidth(size, originalWidth, originalHeight) ==
  IF size.height # 0 THEN [width |-> 0, height |-> size.height]
  ELSE IF size.width # 0 THEN [width |-> size.width, height |-> 0]
  ELSE IF size.longEdge # 0 THEN [width |-> size.longEdge, height |-> 0]
  ELSE [width |-> 0, height |-> 0]

\* The resize options processImage builds for a size (0: option not given).
ResizeOptions(size, originalWidth, originalHeight) ==
  IF size.height # 0 THEN [width |-> 0, height |-> size.height]
  ELSE IF size.width # 0 THEN [width |-> size.width, height |-> 0]
  ELSE IF size.longEdge # 0 THEN
    IF originalWidth >= originalHeight
    THEN [width |-> size.longEdge, height |-> 0]
    ELSE [width |-> 0, height |-> size.longEdge]
  ELSE [width |-> 0, height |-> 0]

\* Math.round(a / b) for positive integers.
RoundDiv(a, b) == (2 * a + b) \div (2 * b)

\* Resize without withoutEnlargement: a smaller source is scaled up.
Resize_enlarge(g, opts) ==
  IF opts.height # 0 THEN
    [width |-> RoundDiv(g.width * opts.height, g.height), height |-> opts.height]
  ELSE IF opts.width # 0 THEN
    [width |-> opts.width, height |-> RoundDiv(g.height * opts.width, g.width)]
  ELSE g

\* sharp's resize(opts) with withoutEnlargement on a grid g: one dimension
\* given, the other follows the aspect ratio; never scaled up; no option, no
\* resize.
Resize(g, opts) ==
  IF opts.height # 0 THEN
    IF opts.height >= g.height THEN g
    ELSE [width |-> RoundDiv(g.width * opts.height, g.height), height |-> opts.height]
  ELSE IF opts.width # 0 THEN
    IF opts.width >= g.width THEN g
    ELSE [width |-> opts.width, height |-> RoundDiv(g.height * opts.width, g.width)]
  ELSE g

\* sharp(originalDest).rotate().resize({ ...resizeOptions, withoutEnlargement:
\* true }): the pixel grid of the variant written for the file node.
Render(node, resizeOptions) == Resize(AutoRotate(node), resizeOptions)

----------------------------------------------------------------------------
(* Calls *)

Idle ==
  [op |-> "idle", pc |-> "idle", id |-> "", a |-> NULL, b |-> NULL,
   dims |-> NoValue, idx |-> 0, steps |-> <<>>, pre |-> <<>>]

\* The request slot a new call takes: the first idle one.
IdleCallers == {i \in 1..Len(CallerNames) : call[CallerNames[i]].op = "idle"}
NextCaller == CallerNames[CHOOSE i \in IdleCallers : \A j \in IdleCallers : i <= j]

\* No call on the item is in flight.
Free(id) == \A k \in Callers : call[k].op = "idle" \/ call[k].id # id

\* A call begins: its arguments and the item's tree at that moment.
Begin(k, op, pc, id, a, b) ==
  [Idle EXCEPT !.op = op, !.pc = pc, !.id = id, !.a = a, !.b = b,
               !.pre = ItemTree(disk, id)]

Record(c, status, err, value) ==
  [op |-> c.op, a |-> c.a, b |-> c.b, status |-> status, err |-> err,
   value |-> value, steps |-> c.steps, pre |-> c.pre]

\* No call on the item has completed yet.
NoCall ==
  [op |-> "none", a |-> NULL, b |-> NULL, status |-> "", err |-> "",
   value |-> NoValue, steps |-> <<>>, pre |-> <<>>]

\* The call c of caller k ends: the promise resolves (status "ok", with value)
\* or rejects (status "error", err names the operation that failed).
Settle(k, c, status, err, value) ==
  /\ call' = [call EXCEPT ![k] = Idle]
  /\ last' = [last EXCEPT ![c.id] = Record(c, status, err, value),
                          ![k] = Record(c, status, err, value)]

\* The call's record of the operations it has awaited so far and whether each
\* succeeded.
Step(c, name, ok) == [c EXCEPT !.steps = Append(@, [name |-> name, ok |-> ok])]

----------------------------------------------------------------------------
(* multer: the upload lands in TEMP_DIR under a fresh name *)

Upload(id, img) ==
  /\ id \notin DOMAIN tmp
  /\ id \notin ingested
  /\ tmp' = [i \in DOMAIN tmp \cup {id} |-> IF i = id THEN img ELSE tmp[i]]
  /\ UNCHANGED <<disk, call, last, ingested, ncalls>>

----------------------------------------------------------------------------
(* processImage(tempPath, collectionId, photoId) *)

StartIngest(k, collectionId, photoId) ==
  /\ call[k].op = "idle"
  /\ call' = [call EXCEPT ![k] = Begin(k, "ingest", "mkdir", photoId, collectionId, NULL)]
  /\ ingested' = ingested \cup {photoId}
  /\ ncalls' = ncalls + 1
  /\ UNCHANGED <<disk, tmp, last>>

\* await fsp.mkdir(outputDir, { recursive: true })
IngestMkdir(k, fail) ==
  LET failed == fail
      c == Step(call[k], "mkdir", ~failed)
      outputDir == getPhotoDir(c.a, c.id)
  IN  /\ call[k].op = "ingest" /\ call[k].pc = "mkdir"
      /\ IF failed
         THEN /\ Settle(k, c, "error", "mkdir", NoValue)
              /\ UNCHANGED disk
         ELSE /\ disk' = Mkdirp(disk, outputDir)
              /\ call' = [call EXCEPT ![k] = [c EXCEPT !.pc = "copyFile"]]
              /\ UNCHANGED last
      /\ UNCHANGED <<tmp, ingested, ncalls>>

\* IngestCopyFile as a move: the temp file is consumed by the attempt, also
\* when the copy fails.
IngestCopyFile_consume(k, fail) ==
  LET outputDir == getPhotoDir(call[k].a, call[k].id)
      originalDest == Join(outputDir, originalFilename)
      failed == fail \/ call[k].id \notin DOMAIN tmp \/ ~CanWrite(disk, originalDest)
      c == Step(call[k], "copyFile", ~failed)
  IN  /\ call[k].op = "ingest" /\ call[k].pc = "copyFile"
      /\ IF failed
         THEN /\ Settle(k, c, "error", "copyFile", NoValue)
              /\ UNCHANGED disk
         ELSE /\ disk' = WriteFile(disk, originalDest, JpgNode(tmp[c.id]))
              /\ call' = [call EXCEPT ![k] = [c EXCEPT !.pc = "unlink"]]
              /\ UNCHANGED last
      /\ tmp' = [i \in DOMAIN tmp \ {c.id} |-> tmp[i]]
      /\ UNCHANGED <<ingested, ncalls>>

\* await fsp.copyFile(tempPath, originalDest)
IngestCopyFile(k, fail) ==
  LET outputDir == getPhotoDir(call[k].a, call[k].id)
      originalDest == Join(outputDir, originalFilename)
      failed == fail \/ call[k].id \notin DOMAIN tmp \/ ~CanWrite(disk, originalDest)
      c == Step(call[k], "copyFile", ~failed)
  IN  /\ call[k].op = "ingest" /\ call[k].pc = "copyFile"
      /\ IF failed
         THEN /\ Settle(k, c, "error", "copyFile", NoValue)
              /\ UNCHANGED disk
         ELSE /\ disk' = WriteFile(disk, originalDest, JpgNode(tmp[c.id]))
              /\ call' = [call EXCEPT ![k] = [c EXCEPT !.pc = "unlink"]]
              /\ UNCHANGED last
      /\ UNCHANGED <<tmp, ingested, ncalls>>

\* IngestUnlink with the rejection of unlink ignored (as if the call were
\* fsp.unlink(tempPath).catch(() => {})): the call goes on.
IngestUnlink_swallow(k, fail) ==
  LET failed == fail \/ call[k].id \notin DOMAIN tmp
      c == Step(call[k], "unlink", ~failed)
  IN  /\ call[k].op = "ingest" /\ call[k].pc = "unlink"
      /\ IF failed
         THEN UNCHANGED tmp
         ELSE tmp' = [i \in DOMAIN tmp \ {c.id} |-> tmp[i]]
      /\ call' = [call EXCEPT ![k] = [c EXCEPT !.pc = "metadata"]]
      /\ UNCHANGED <<disk, last, ingested, ncalls>>

\* await fsp.unlink(tempPath)
IngestUnlink(k, fail) ==
  LET failed == fail \/ call[k].id \notin DOMAIN tmp
      c == Step(call[k], "unlink", ~failed)
  IN  /\ call[k].op = "ingest" /\ call[k].pc = "unlink"
      /\ IF failed
         THEN /\ Settle(k, c, "error", "unlink", NoValue)
              /\ UNCHANGED tmp
         ELSE /\ tmp' = [i \in DOMAIN tmp \ {c.id} |-> tmp[i]]
              /\ call' = [call EXCEPT ![k] = [c EXCEPT !.pc = "metadata"]]
              /\ UNCHANGED last
      /\ UNCHANGED <<disk, ingested, ncalls>>

\* await getOrientedDimensions(originalDest); with no size configured the
\* function returns right after it.
IngestMetadata(k, fail) ==
  LET outputDir == getPhotoDir(call[k].a, call[k].id)
      originalDest == Join(outputDir, originalFilename)
      failed == fail \/ ~Exists(disk, originalDest)
      c == Step(call[k], "metadata", ~failed)
  IN  /\ call[k].op = "ingest" /\ call[k].pc = "metadata"
      /\ IF failed
         THEN Settle(k, c, "error", "metadata", NoValue)
         ELSE LET d == getOrientedDimensions(disk[originalDest])
              IN  IF Len(IMAGE_SIZES) = 0
                  THEN Settle(k, c, "ok", "", d)
                  ELSE /\ call' = [call EXCEPT ![k] =
                                     [c EXCEPT !.pc = "render", !.dims = d, !.idx = 1]]
                       /\ UNCHANGED last
      /\ UNCHANGED <<disk, tmp, ingested, ncalls>>

\* IngestRender with one retry of a size whose render failed.
IngestRender_retry(k, fail) ==
  LET size == IMAGE_SIZES[call[k].idx]
      outputDir == getPhotoDir(call[k].a, call[k].id)
      originalDest == Join(outputDir, originalFilename)
      outputPath == Join(outputDir, VariantFile(size.name))
      failed == fail \/ ~Exists(disk, originalDest) \/ ~CanWrite(disk, outputPath)
      c == Step(call[k], size.name, ~failed)
      resizeOptions == ResizeOptions(size, c.dims.width, c.dims.height)
      tried == \E i \in DOMAIN call[k].steps : call[k].steps[i].name = size.name
  IN  /\ call[k].op = "ingest" /\ call[k].pc = "render"
      /\ IF failed
         THEN /\ IF tried
                 THEN Settle(k, c, "error", size.name, NoValue)
                 ELSE /\ call' = [call EXCEPT ![k] = c]
                      /\ UNCHANGED last
              /\ UNCHANGED disk
         ELSE /\ disk' = WriteFile(disk, outputPath,
                           WebpNode(Render(disk[originalDest], resizeOptions)))
              /\ IF c.idx = Len(IMAGE_SIZES)
                 THEN Settle(k, c, "ok", "", c.dims)
                 ELSE /\ call' = [call EXCEPT ![k] = [c EXCEPT !.idx = @ + 1]]
                      /\ UNCHANGED last
      /\ UNCHANGED <<tmp, ingested, ncalls>>

\* One iteration of `for (const size of IMAGE_SIZES)`: the resize options, then
\* await sharp(originalDest).rotate().resize(..).webp(..).toFile(outputPath).
\* The loop body has no try/catch: a rejection leaves the loop and rejects
\* processImage.  After the last size the function returns the dimensions.
IngestRender(k, fail) ==
  LET size == IMAGE_SIZES[call[k].idx]
      outputDir == getPhotoDir(call[k].a, call[k].id)
      originalDest == Join(outputDir, originalFilename)
      outputPath == Join(outputDir, VariantFile(size.name))
      failed == fail \/ ~Exists(disk, originalDest) \/ ~CanWrite(disk, outputPath)
      c == Step(call[k], size.name, ~failed)
      resizeOptions == ResizeOptions(size, c.dims.width, c.dims.height)
  IN  /\ call[k].op = "ingest" /\ call[k].pc = "render"
      /\ IF failed
         THEN /\ Settle(k, c, "error", size.name, NoValue)
              /\ UNCHANGED disk
         ELSE /\ disk' = WriteFile(disk, outputPath,
                           WebpNode(Render(disk[originalDest], resizeOptions)))
              /\ IF c.idx = Len(IMAGE_SIZES)
                 THEN Settle(k, c, "ok", "", c.dims)
                 ELSE /\ call' = [call EXCEPT ![k] = [c EXCEPT !.idx = @ + 1]]
                      /\ UNCHANGED last
      /\ UNCHANGED <<tmp, ingested, ncalls>>

----------------------------------------------------------------------------
(* movePhotoToCollection(oldCollectionId, newCollectionId, photoId) *)

\* The synchronous head: both directories are resolved and compared; equal
\* paths return at once, otherwise fsp.access(oldDir) is issued.
StartRelocate(k, oldCollectionId, newCollectionId, photoId) ==
  LET c == Begin(k, "relocate", "access", photoId, oldCollectionId, newCollectionId)
      oldDir == getPhotoDir(oldCollectionId, photoId)
      newDir == getPhotoDir(newCollectionId, photoId)
  IN  /\ call[k].op = "idle"
      /\ IF oldDir = newDir
         THEN Settle(k, c, "ok", "", NoValue)
         ELSE /\ call' = [call EXCEPT ![k] = c]
              /\ UNCHANGED last
      /\ ncalls' = ncalls + 1
      /\ UNCHANGED <<disk, tmp, ingested>>

\* RelocateAccess with the new collection directory created before the old
\* directory is looked at.
RelocateAccess_mkdirFirst(k) ==
  LET oldDir == getPhotoDir(call[k].a, call[k].id)
      newDir == getPhotoDir(call[k].b, call[k].id)
      failed == ~Exists(disk, oldDir)
      c == Step(call[k], "access", ~failed)
  IN  /\ call[k].op = "relocate" /\ call[k].pc = "access"
      /\ disk' = Mkdirp(disk, Dirname(newDir))
      /\ IF failed
         THEN Settle(k, c, "ok", "", NoValue)
         ELSE /\ call' = [call EXCEPT ![k] = [c EXCEPT !.pc = "mkdir"]]
              /\ UNCHANGED last
      /\ UNCHANGED <<tmp, ingested, ncalls>>

\* await fsp.access(oldDir): rejects when oldDir does not exist; the catch
\* swallows the rejection and the function returns.
RelocateAccess(k) ==
  LET oldDir == getPhotoDir(call[k].a, call[k].id)
      failed == ~Exists(disk, oldDir)
      c == Step(call[k], "access", ~failed)
  IN  /\ call[k].op = "relocate" /\ call[k].pc = "access"
      /\ IF failed
         THEN Settle(k, c, "ok", "", NoValue)
         ELSE /\ call' = [call EXCEPT ![k] = [c EXCEPT !.pc = "mkdir"]]
              /\ UNCHANGED last
      /\ UNCHANGED <<disk, tmp, ingested, ncalls>>

\* await fsp.mkdir(path.dirname(newDir), { recursive: true }): inside the same
\* try, so a rejection is swallowed too.
RelocateMkdir(k, fail) ==
  LET failed == fail
      c == Step(call[k], "mkdir", ~failed)
      newDir == getPhotoDir(c.b, c.id)
      newCollectionDir == Dirname(newDir)
  IN  /\ call[k].op = "relocate" /\ call[k].pc = "mkdir"
      /\ IF failed
         THEN /\ Settle(k, c, "ok", "", NoValue)
              /\ UNCHANGED disk
         ELSE /\ disk' = Mkdirp(disk, newCollectionDir)
              /\ call' = [call EXCEPT ![k] = [c EXCEPT !.pc = "rename"]]
              /\ UNCHANGED last
      /\ UNCHANGED <<tmp, ingested, ncalls>>

\* await fsp.rename(oldDir, newDir): moves the directory with all its files;
\* a rejection is swallowed by the same catch.  Either way the function
\* returns normally.
RelocateRename(k, fail) ==
  LET oldDir == getPhotoDir(call[k].a, call[k].id)
      newDir == getPhotoDir(call[k].b, call[k].id)
      failed == fail \/ ~CanRename(disk, oldDir, newDir)
      c == Step(call[k], "rename", ~failed)
  IN  /\ call[k].op = "relocate" /\ call[k].pc = "rename"
      /\ IF failed
         THEN UNCHANGED disk
         ELSE disk' = Rename(disk, oldDir, newDir)
      /\ Settle(k, c, "ok", "", NoValue)
      /\ UNCHANGED <<tmp, ingested, ncalls>>

----------------------------------------------------------------------------
(* deleteImageVariants(collectionId, photoId) *)

StartDelete(k, collectionId, photoId) ==
  /\ call[k].op = "idle"
  /\ call' = [call EXCEPT ![k] = Begin(k, "deleteAll", "rm", photoId, collectionId, NULL)]
  /\ ncalls' = ncalls + 1
  /\ UNCHANGED <<disk, tmp, last, ingested>>

\* DeleteRm without force: a missing directory rejects the call.
DeleteRm_noForce(k, fail) ==
  LET imageDir == getPhotoDir(call[k].a, call[k].id)
      failed == fail \/ ~Exists(disk, imageDir)
      c == Step(call[k], "rm", ~failed)
  IN  /\ call[k].op = "deleteAll" /\ call[k].pc = "rm"
      /\ IF failed
         THEN /\ Settle(k, c, "error", "rm", NoValue)
              /\ UNCHANGED disk
         ELSE /\ disk' = RmRecursiveForce(disk, imageDir)
              /\ Settle(k, c, "ok", "", NoValue)
      /\ UNCHANGED <<tmp, ingested, ncalls>>

\* await fsp.rm(imageDir, { recursive: true, force: true }): a failure to
\* remove what is there rejects the call; with force a missing directory is
\* not a failure.
DeleteRm(k, fail) ==
  LET imageDir == getPhotoDir(call[k].a, call[k].id)
      failed == fail /\ Exists(disk, imageDir)
      c == Step(call[k], "rm", ~failed)
  IN  /\ call[k].op = "deleteAll" /\ call[k].pc = "rm"
      /\ IF failed
         THEN /\ Settle(k, c, "error", "rm", NoValue)
              /\ UNCHANGED disk
         ELSE /\ disk' = RmRecursiveForce(disk, imageDir)
              /\ Settle(k, c, "ok", "", NoValue)
      /\ UNCHANGED <<tmp, ingested, ncalls>>

----------------------------------------------------------------------------
(* The pipeline used by one caller per item *)

\* Nothing has been read yet; no request has arrived.
NoAnswer == [fn |-> "none"]
NoRequest ==
  [kind |-> "", pc |-> "idle", id |-> "", collectionId |-> NULL, meta |-> "none",
   collection |-> NULL, old |-> NULL,
   savedWidth |-> 0, savedHeight |-> 0, todo |-> {}, name |-> "", status |-> 0, width |-> 0, height |-> 0]

\* The state a pipeline step leaves alone: the reads' result and the HTTP
\* layer (tables and requests).
Aside == UNCHANGED <<answer, photos, collections, req, auth, carousel>>

\* The API's requests and the pipeline leave the middleware's cache and the
\* page's component alone; neither is in use until its own specification
\* starts it.
Apart == UNCHANGED <<auth, carousel>>
Unused == <<>>
NotStarted == auth = Unused /\ carousel = Unused

Init ==
  /\ NotStarted
  /\ disk = <<>>
  /\ tmp = <<>>
  /\ call = [k \in Callers |-> Idle]
  /\ last = [x \in Items \cup Callers |-> NoCall]
  /\ ingested = {}
  /\ ncalls = 0
  /\ answer = NoAnswer
  /\ photos = <<>>
  /\ collections = <<>>
  /\ req = [k \in Callers |-> NoRequest]

\* A new call takes the first idle request slot; the item has no call in
\* flight.
MayCall(k, id) ==
  /\ ncalls < MaxCalls
  /\ IdleCallers # {}
  /\ k = NextCaller
  /\ Free(id)

Next ==
  \/ \E id \in SoloItems, img \in Images : Upload(id, img) /\ Aside
  \/ \E k \in Callers, g \in GroupArgs, id \in SoloItems :
       /\ MayCall(k, id)
       /\ id \in DOMAIN tmp /\ id \notin ingested
       /\ StartIngest(k, g, id)
       /\ Aside
  \/ \E k \in Callers, fail \in BOOLEAN : IngestMkdir(k, fail) /\ Aside
  \/ \E k \in Callers, fail \in BOOLEAN : IngestCopyFile(k, fail) /\ Aside
  \/ \E k \in Callers, fail \in BOOLEAN : IngestUnlink(k, fail) /\ Aside
  \/ \E k \in Callers, fail \in BOOLEAN : IngestMetadata(k, fail) /\ Aside
  \/ \E k \in Callers, fail \in BOOLEAN : IngestRender(k, fail) /\ Aside
  \/ \E k \in Callers, old \in GroupArgs, new \in GroupArgs, id \in SoloItems :
       MayCall(k, id) /\ StartRelocate(k, old, new, id) /\ Aside
  \/ \E k \in Callers : RelocateAccess(k) /\ Aside
  \/ \E k \in Callers, fail \in BOOLEAN : RelocateMkdir(k, fail) /\ Aside
  \/ \E k \in Callers, fail \in BOOLEAN : RelocateRename(k, fail) /\ Aside
  \/ \E k \in Callers, g \in GroupArgs, id \in SoloItems :
       MayCall(k, id) /\ StartDelete(k, g, id) /\ Aside
  \/ \E k \in Callers, fail \in BOOLEAN : DeleteRm(k, fail) /\ Aside

Spec == Init /\ [][Next]_vars

----------------------------------------------------------------------------
(* Reads: getPhotoDir and getImagePath applied to a tree *)

\* null
NoPath == <<>>

\* fileExists: await fsp.access(filePath) inside try/catch, true or false.
fileExists(d, filePath) == Exists(d, filePath)

\* getImagePath with no fallback to the original.
getImagePath_noFallback(d, collectionId, photoId, size) ==
  LET imageDir == getPhotoDir(collectionId, photoId)
      originalPath == Join(imageDir, originalFilename)
      webpPath == Join(imageDir, VariantFile(size))
  IN  IF size = "original"
      THEN IF fileExists(d, originalPath) THEN originalPath ELSE NoPath
      ELSE IF fileExists(d, webpPath) THEN webpPath ELSE NoPath

\* getImagePath(collectionId, photoId, size) on the tree d: the path of the
\* file to serve, or null.
getImagePath(d, collectionId, photoId, size) ==
  LET imageDir == getPhotoDir(collectionId, photoId)
      originalPath == Join(imageDir, originalFilename)
      webpPath == Join(imageDir, VariantFile(size))
  IN  IF size = "original"
      THEN IF fileExists(d, originalPath) THEN originalPath ELSE NoPath
      ELSE IF fileExists(d, webpPath) THEN webpPath
      ELSE IF fileExists(d, originalPath) THEN originalPath ELSE NoPath

\* The size names a read asks for: the configured variants, the original and
\* a name no variant has.
SizeNames == {IMAGE_SIZES[i].name : i \in DOMAIN IMAGE_SIZES} \cup {"original", "poster"}

\* The files an item directory can hold.
ItemFiles == {originalFilename} \cup {VariantFile(IMAGE_SIZES[i].name) : i \in DOMAIN IMAGE_SIZES}

\* A tree with one item directory holding the given files.
TreeOf(collectionDir, photoId, files) ==
  LET dir == <<collectionDir, photoId>>
  IN  [q \in {<<collectionDir>>, dir} \cup {Join(dir, f) : f \in files} |->
         IF Len(q) <= 2 THEN DirNode
         ELSE IF q[3] = originalFilename THEN JpgNode([w |-> 4000, h |-> 3000, o |-> 1])
         ELSE WebpNode([width |-> 400, height |-> 300])]

ReadTrees ==
  {<<>>} \cup {TreeOf(s, id, F) : s \in Segs, id \in SoloItems, F \in SUBSET ItemFiles}

\* A caller resolves an item directory.
ResolveDir(collectionId, photoId) ==
  /\ answer' = [fn |-> "getPhotoDir", collectionId |-> collectionId, photoId |-> photoId,
                size |-> "", out |-> getPhotoDir(collectionId, photoId), tree |-> <<>>]
  /\ UNCHANGED <<disk, tmp, call, last, ingested, ncalls, photos, collections, req>>

\* A caller asks for the path of a size of an item; the answer keeps the
\* item's tree as it was read.
ReadImagePath(collectionId, photoId, size) ==
  /\ answer' = [fn |-> "getImagePath", collectionId |-> collectionId, photoId |-> photoId,
                size |-> size, out |-> getImagePath(disk, collectionId, photoId, size),
                tree |-> ItemTree(disk, photoId)]
  /\ UNCHANGED <<disk, tmp, call, last, ingested, ncalls, photos, collections, req>>

InitRead ==
  /\ NotStarted
  /\ disk \in ReadTrees
  /\ tmp = <<>>
  /\ call = [k \in Callers |-> Idle]
  /\ last = [x \in Items \cup Callers |-> NoCall]
  /\ ingested = {}
  /\ ncalls = 0
  /\ answer = NoAnswer
  /\ photos = <<>>
  /\ collections = <<>>
  /\ req = [k \in Callers |-> NoRequest]

\* Reads of a tree that deleteAll calls change in between.
NextRead ==
  \/ \E g \in GroupArgs, id \in Items : ResolveDir(g, id) /\ Apart
  \/ \E g \in GroupArgs, id \in SoloItems, size \in SizeNames : ReadImagePath(g, id, size) /\ Apart
  \/ \E k \in Callers, g \in GroupArgs, id \in SoloItems :
       MayCall(k, id) /\ StartDelete(k, g, id) /\ Aside
  \/ \E k \in Callers, fail \in BOOLEAN : DeleteRm(k, fail) /\ Aside

SpecRead == InitRead /\ [][NextRead]_vars

----------------------------------------------------------------------------
(* Two uploads ingested by two callers at once *)

\* The upload of each item: a landscape picture, and a rotated one smaller
\* than some of the sizes.
TwoUploads ==
  [id \in Items |-> IF id = "p1" THEN [w |-> 4000, h |-> 3000, o |-> 1]
                    ELSE [w |-> 450, h |-> 1600, o |-> 8]]

InitTwo ==
  /\ NotStarted
  /\ disk = <<>>
  /\ tmp = TwoUploads
  /\ call = [k \in Callers |-> Idle]
  /\ last = [x \in Items \cup Callers |-> NoCall]
  /\ ingested = {}
  /\ ncalls = 0
  /\ answer = NoAnswer
  /\ photos = <<>>
  /\ collections = <<>>
  /\ req = [k \in Callers |-> NoRequest]

\* processImage is called once for each upload; the two calls take their
\* steps in any order.
NextTwo ==
  \/ \E k \in Callers, g \in GroupArgs, id \in Items :
       /\ MayCall(k, id)
       /\ id \in DOMAIN tmp /\ id \notin ingested
       /\ StartIngest(k, g, id)
       /\ Aside
  \/ \E k \in Callers, fail \in BOOLEAN : IngestMkdir(k, fail) /\ Aside
  \/ \E k \in Callers, fail \in BOOLEAN : IngestCopyFile(k, fail) /\ Aside
  \/ \E k \in Callers, fail \in BOOLEAN : IngestUnlink(k, fail) /\ Aside
  \/ \E k \in Callers, fail \in BOOLEAN : IngestMetadata(k, fail) /\ Aside
  \/ \E k \in Callers, fail \in BOOLEAN : IngestRender(k, fail) /\ Aside

SpecTwo == InitTwo /\ [][NextTwo]_vars

----------------------------------------------------------------------------
(* POST /photos *)

\* The collections table when the uploads arrive.
StoredCollections == [c \in {"c1"} |-> "Travel"]

\* The meta field of the body: absent, not a JSON object, an object with one
\* entry.
MetaFields == {"none", "invalid", "entry"}

\* The slot a new request takes: the first one with no request in flight.
FreeSlots ==
  {i \in 1..Len(CallerNames) :
     req[CallerNames[i]].pc \in {"idle", "done"} /\ call[CallerNames[i]].op = "idle"}
NextSlot == CallerNames[CHOOSE i \in FreeSlots : \A j \in FreeSlots : i <= j]

\* res.status(status).json(..): the request is answered.
Respond(q, status, width, height) ==
  [q EXCEPT !.pc = "done", !.status = status, !.width = width, !.height = height]

\* The catch block: cleanupFile() removes the temp file if it is still there,
\* then an UploadError answers with its statusCode (400), anything else 500.
Catch(k, uploadError) ==
  /\ tmp' = [i \in DOMAIN tmp \ {req[k].id} |-> tmp[i]]
  /\ req' = [req EXCEPT ![k] = Respond(@, IF uploadError THEN 400 ELSE 500, 0, 0)]

\* The request arrives with its file stored by multer; the handler runs to its
\* first await: collectionRepository.findOne when the body names a collection,
\* photoRepository.save otherwise.
PostArrive(k, id, collectionId, meta) ==
  /\ FreeSlots # {} /\ k = NextSlot
  /\ id \in DOMAIN tmp /\ id \notin DOMAIN photos /\ id \notin ingested
  /\ \A j \in Callers : req[j].pc \in {"idle", "done"} \/ req[j].id # id
  /\ req' = [req EXCEPT ![k] =
               [NoRequest EXCEPT !.kind = "post",
                                 !.pc = IF collectionId \in {NULL, ""} THEN "save"
                                        ELSE "findCollection",
                                 !.id = id, !.collectionId = collectionId, !.meta = meta]]
  /\ UNCHANGED <<disk, tmp, call, last, ingested, ncalls, answer, photos, collections>>

\* await collectionRepository.findOne: no such collection throws an
\* UploadError.
PostFindCollection(k) ==
  LET q == req[k]
  IN  /\ q.pc = "findCollection"
      /\ IF q.collectionId \in DOMAIN collections
         THEN /\ req' = [req EXCEPT ![k] = [q EXCEPT !.pc = "save", !.collection = q.collectionId]]
              /\ UNCHANGED tmp
         ELSE Catch(k, TRUE)
      /\ UNCHANGED <<disk, call, last, ingested, ncalls, answer, photos, collections>>

\* A property of an entity that is undefined.
UNDEFINED == "<undefined>"

\* The handler's entity has `collection: collection || undefined`.
OrUndefined(collection) == IF collection = NULL THEN UNDEFINED ELSE collection

\* photoRepository.save(entity): the row is inserted or updated with the
\* entity's columns; an undefined relation is skipped (a new row has none).
SavedPhotos(id, collection, width, height) ==
  [i \in DOMAIN photos \cup {id} |->
     IF i = id
     THEN [collection |-> IF collection # UNDEFINED THEN collection
                          ELSE IF id \in DOMAIN photos THEN photos[id].collection
                          ELSE NULL,
           width |-> width, height |-> height]
     ELSE photos[i]]

\* @ManyToOne / @JoinColumn("collectionId"): a photo row cannot reference a
\* collection that is not in the table; the save rejects.
ViolatesForeignKey(collection) ==
  collection \notin {UNDEFINED, NULL} /\ collection \notin DOMAIN collections

\* await photoRepository.save(photo): the record exists from here on, with the
\* width and height of the body (none: 0).
PostSave(k) ==
  LET q == req[k]
  IN  /\ q.pc = "save"
      /\ IF ViolatesForeignKey(q.collection)
         THEN /\ Catch(k, FALSE)
              /\ UNCHANGED photos
         ELSE /\ photos' = SavedPhotos(q.id, OrUndefined(q.collection), 0, 0)
              /\ req' = [req EXCEPT ![k] = [q EXCEPT !.pc = "saveSrc"]]
              /\ UNCHANGED tmp
      /\ UNCHANGED <<disk, call, last, ingested, ncalls, answer, collections>>

\* await photoRepository.save(savedPhoto) (src), then the meta field: invalid
\* meta throws an UploadError; an entry is saved; with no meta processImage is
\* called and runs to its first await.
PostSaveSrc(k) ==
  LET q == req[k]
  IN  /\ q.pc = "saveSrc"
      /\ \/ /\ q.meta = "invalid"
            /\ Catch(k, TRUE)
            /\ UNCHANGED <<disk, call, last, ingested, ncalls>>
         \/ /\ q.meta = "entry"
            /\ req' = [req EXCEPT ![k] = [q EXCEPT !.pc = "saveMeta"]]
            /\ UNCHANGED <<disk, tmp, call, last, ingested, ncalls>>
         \/ /\ q.meta = "none"
            /\ StartIngest(k, q.collection, q.id)
            /\ req' = [req EXCEPT ![k] = [q EXCEPT !.pc = "processImage"]]
      /\ UNCHANGED <<answer, photos, collections>>

\* await metaRepository.save(photoMeta) of the entry, then processImage is
\* called.
PostSaveMeta(k) ==
  LET q == req[k]
  IN  /\ q.pc = "saveMeta"
      /\ StartIngest(k, q.collection, q.id)
      /\ req' = [req EXCEPT ![k] = [q EXCEPT !.pc = "processImage"]]
      /\ UNCHANGED <<answer, photos, collections>>

\* await processImage(..) settles: the dimensions go into savedPhoto and the
\* save is issued, or the rejection lands in the catch block.
PostAfterIngest(k) ==
  LET q == req[k]
      r == last[k]
  IN  /\ q.pc = "processImage"
      /\ call[k].op = "idle"
      /\ IF r.status = "ok"
         THEN /\ req' = [req EXCEPT ![k] = [q EXCEPT !.pc = "saveDims",
                                                    !.savedWidth = r.value.width,
                                                    !.savedHeight = r.value.height]]
              /\ UNCHANGED tmp
         ELSE Catch(k, FALSE)
      /\ UNCHANGED <<disk, call, last, ingested, ncalls, answer, photos, collections>>

\* await photoRepository.save(savedPhoto) with the dimensions.
PostSaveDims(k) ==
  LET q == req[k]
  IN  /\ q.pc = "saveDims"
      /\ IF ViolatesForeignKey(q.collection)
         THEN /\ Catch(k, FALSE)
              /\ UNCHANGED photos
         ELSE /\ photos' = SavedPhotos(q.id, OrUndefined(q.collection),
                                       q.savedWidth, q.savedHeight)
              /\ req' = [req EXCEPT ![k] = [q EXCEPT !.pc = "findOne"]]
              /\ UNCHANGED tmp
      /\ UNCHANGED <<disk, call, last, ingested, ncalls, answer, collections>>

\* await photoRepository.findOne(..), then 201 with the reloaded record's
\* width and height; a missing record makes result!.id throw.
PostRespond(k) ==
  LET q == req[k]
  IN  /\ q.pc = "findOne"
      /\ IF q.id \in DOMAIN photos
         THEN /\ req' = [req EXCEPT ![k] =
                          Respond(q, 201, photos[q.id].width, photos[q.id].height)]
              /\ UNCHANGED tmp
         ELSE Catch(k, FALSE)
      /\ UNCHANGED <<disk, call, last, ingested, ncalls, answer, photos, collections>>

InitPost ==
  /\ NotStarted
  /\ disk = <<>>
  /\ tmp = <<>>
  /\ call = [k \in Callers |-> Idle]
  /\ last = [x \in Items \cup Callers |-> NoCall]
  /\ ingested = {}
  /\ ncalls = 0
  /\ answer = NoAnswer
  /\ photos = <<>>
  /\ collections = StoredCollections
  /\ req = [k \in Callers |-> NoRequest]

NextPost ==
  \/ \E id \in SoloItems, img \in Images : Upload(id, img) /\ Aside
  \/ \E k \in Callers, id \in SoloItems, g \in GroupArgs, meta \in MetaFields :
       PostArrive(k, id, g, meta) /\ Apart
  \/ \E k \in Callers : PostFindCollection(k) /\ Apart
  \/ \E k \in Callers : PostSave(k) /\ Apart
  \/ \E k \in Callers : PostSaveSrc(k) /\ Apart
  \/ \E k \in Callers : PostSaveMeta(k) /\ Apart
  \/ \E k \in Callers, fail \in BOOLEAN : IngestMkdir(k, fail) /\ Aside
  \/ \E k \in Callers, fail \in BOOLEAN : IngestCopyFile(k, fail) /\ Aside
  \/ \E k \in Callers, fail \in BOOLEAN : IngestUnlink(k, fail) /\ Aside
  \/ \E k \in Callers, fail \in BOOLEAN : IngestMetadata(k, fail) /\ Aside
  \/ \E k \in Callers, fail \in BOOLEAN : IngestRender(k, fail) /\ Aside
  \/ \E k \in Callers : PostAfterIngest(k) /\ Apart
  \/ \E k \in Callers : PostSaveDims(k) /\ Apart
  \/ \E k \in Callers : PostRespond(k) /\ Apart

SpecPost == InitPost /\ [][NextPost]_vars

----------------------------------------------------------------------------
(* PUT /photos/:id and DELETE /photos/:id *)

\* The collectionId of a PUT body: absent, null, or an id.
PutCollectionIds == CollectionIds \cup {UNDEFINED, NULL}

\* The request arrives and awaits photoRepository.findOne.
PutArrive(k, id, collectionId) ==
  /\ FreeSlots # {} /\ k = NextSlot
  /\ ncalls < MaxCalls
  /\ req' = [req EXCEPT ![k] =
               [NoRequest EXCEPT !.kind = "put", !.pc = "putFindPhoto", !.id = id,
                                 !.collectionId = collectionId]]
  /\ UNCHANGED <<disk, tmp, call, last, ingested, ncalls, answer, photos, collections>>

\* findOne settles: 404 without a record; otherwise the loaded entity, its
\* collection as oldCollectionId, and the body's collectionId: absent keeps
\* the loaded collection, null sets photo.collection = undefined, an id awaits
\* collectionRepository.findOne.  With the collection decided save is issued.
PutFindPhoto(k) ==
  LET q == req[k]
      p == photos[q.id]
      loaded == [q EXCEPT !.old = p.collection, !.savedWidth = p.width,
                          !.savedHeight = p.height]
  IN  /\ q.kind = "put" /\ q.pc = "putFindPhoto"
      /\ req' = [req EXCEPT ![k] =
                   IF q.id \notin DOMAIN photos THEN Respond(q, 404, 0, 0)
                   ELSE IF q.collectionId = UNDEFINED
                     THEN [loaded EXCEPT !.pc = "putSave", !.collection = p.collection]
                   ELSE IF q.collectionId = NULL
                     THEN [loaded EXCEPT !.pc = "putSave", !.collection = UNDEFINED]
                   ELSE [loaded EXCEPT !.pc = "putFindCollection"]]
      /\ UNCHANGED <<disk, tmp, call, last, ingested, ncalls, answer, photos, collections>>

\* await collectionRepository.findOne: 404 when there is no such collection.
PutFindCollection(k) ==
  LET q == req[k]
  IN  /\ q.kind = "put" /\ q.pc = "putFindCollection"
      /\ req' = [req EXCEPT ![k] =
                   IF q.collectionId \in DOMAIN collections
                   THEN [q EXCEPT !.pc = "putSave", !.collection = q.collectionId]
                   ELSE Respond(q, 404, 0, 0)]
      /\ UNCHANGED <<disk, tmp, call, last, ingested, ncalls, answer, photos, collections>>

\* newCollectionId of the handler.
PutNewCollectionId(q) ==
  IF q.collectionId = UNDEFINED THEN q.old
  ELSE IF q.collectionId = NULL THEN NULL
  ELSE q.collection

\* await photoRepository.save(photo) settles (a rejection answers 500); when
\* the collection changed movePhotoToCollection is called and runs to its
\* first await, otherwise the reload is issued.
PutSave(k) ==
  LET q == req[k]
      new == PutNewCollectionId(q)
  IN  /\ q.kind = "put" /\ q.pc = "putSave"
      /\ IF ViolatesForeignKey(q.collection)
         THEN /\ req' = [req EXCEPT ![k] = Respond(q, 500, 0, 0)]
              /\ UNCHANGED <<photos, call, last, ncalls>>
         ELSE /\ photos' = SavedPhotos(q.id, q.collection, q.savedWidth, q.savedHeight)
              /\ IF q.old # new
                 THEN /\ StartRelocate(k, q.old, new, q.id)
                      /\ req' = [req EXCEPT ![k] = [q EXCEPT !.pc = "putMove"]]
                 ELSE /\ req' = [req EXCEPT ![k] = [q EXCEPT !.pc = "putReload"]]
                      /\ UNCHANGED <<call, last, ncalls>>
      /\ UNCHANGED <<disk, tmp, ingested, answer, collections>>

\* await movePhotoToCollection(..) settles (it never rejects); the reload is
\* issued.
PutAfterMove(k) ==
  LET q == req[k]
  IN  /\ q.kind = "put" /\ q.pc = "putMove"
      /\ call[k].op = "idle"
      /\ req' = [req EXCEPT ![k] = [q EXCEPT !.pc = "putReload"]]
      /\ UNCHANGED <<disk, tmp, call, last, ingested, ncalls, answer, photos, collections>>

\* await photoRepository.findOne(..): the response; a missing record makes
\* result!.id throw and the catch answers 500.
PutReload(k) ==
  LET q == req[k]
  IN  /\ q.kind = "put" /\ q.pc = "putReload"
      /\ req' = [req EXCEPT ![k] =
                   IF q.id \in DOMAIN photos
                   THEN Respond(q, 200, photos[q.id].width, photos[q.id].height)
                   ELSE Respond(q, 500, 0, 0)]
      /\ UNCHANGED <<disk, tmp, call, last, ingested, ncalls, answer, photos, collections>>

\* DELETE /photos/:id arrives and awaits photoRepository.findOne.
DeleteArrive(k, id) ==
  /\ FreeSlots # {} /\ k = NextSlot
  /\ ncalls < MaxCalls
  /\ req' = [req EXCEPT ![k] =
               [NoRequest EXCEPT !.kind = "delete", !.pc = "delFindPhoto", !.id = id]]
  /\ UNCHANGED <<disk, tmp, call, last, ingested, ncalls, answer, photos, collections>>

\* findOne settles: 404 without a record, otherwise deleteImageVariants is
\* called with the record's collection.
DeleteFindPhoto(k) ==
  LET q == req[k]
  IN  /\ q.kind = "delete" /\ q.pc = "delFindPhoto"
      /\ IF q.id \notin DOMAIN photos
         THEN /\ req' = [req EXCEPT ![k] = Respond(q, 404, 0, 0)]
              /\ UNCHANGED <<call, ncalls>>
         ELSE /\ StartDelete(k, photos[q.id].collection, q.id)
              /\ req' = [req EXCEPT ![k] = [q EXCEPT !.pc = "delRm",
                                                    !.old = photos[q.id].collection]]
      /\ UNCHANGED <<disk, tmp, last, ingested, answer, photos, collections>>

\* await deleteImageVariants(..) settles: a rejection answers 500, otherwise
\* metaRepository.delete is issued.
DeleteAfterRm(k) ==
  LET q == req[k]
  IN  /\ q.kind = "delete" /\ q.pc = "delRm"
      /\ call[k].op = "idle"
      /\ req' = [req EXCEPT ![k] =
                   IF last[k].status = "ok" THEN [q EXCEPT !.pc = "delMeta"]
                   ELSE Respond(q, 500, 0, 0)]
      /\ UNCHANGED <<disk, tmp, call, last, ingested, ncalls, answer, photos, collections>>

\* await metaRepository.delete(..) settles; photoRepository.delete is issued.
DeleteMeta(k) ==
  LET q == req[k]
  IN  /\ q.kind = "delete" /\ q.pc = "delMeta"
      /\ req' = [req EXCEPT ![k] = [q EXCEPT !.pc = "delPhoto"]]
      /\ UNCHANGED <<disk, tmp, call, last, ingested, ncalls, answer, photos, collections>>

\* await photoRepository.delete(photo.id) settles: the record is gone, 200.
DeletePhoto(k) ==
  LET q == req[k]
  IN  /\ q.kind = "delete" /\ q.pc = "delPhoto"
      /\ photos' = [i \in DOMAIN photos \ {q.id} |-> photos[i]]
      /\ req' = [req EXCEPT ![k] = Respond(q, 200, 0, 0)]
      /\ UNCHANGED <<disk, tmp, call, last, ingested, ncalls, answer, collections>>

\* Both collections are in the table.
BothCollections == [c \in CollectionIds |-> IF c = "c1" THEN "Travel" ELSE "Family"]

\* The steps of the pipeline calls the handlers await.
IngestStep ==
  \/ \E k \in Callers, fail \in BOOLEAN : IngestMkdir(k, fail) /\ Aside
  \/ \E k \in Callers, fail \in BOOLEAN : IngestCopyFile(k, fail) /\ Aside
  \/ \E k \in Callers, fail \in BOOLEAN : IngestUnlink(k, fail) /\ Aside
  \/ \E k \in Callers, fail \in BOOLEAN : IngestMetadata(k, fail) /\ Aside
  \/ \E k \in Callers, fail \in BOOLEAN : IngestRender(k, fail) /\ Aside

RelocateStep ==
  \/ \E k \in Callers : RelocateAccess(k) /\ Aside
  \/ \E k \in Callers, fail \in BOOLEAN : RelocateMkdir(k, fail) /\ Aside
  \/ \E k \in Callers, fail \in BOOLEAN : RelocateRename(k, fail) /\ Aside

DeleteRmStep == \E k \in Callers, fail \in BOOLEAN : DeleteRm(k, fail) /\ Aside

PostStep ==
  \/ \E k \in Callers : PostFindCollection(k) /\ Apart
  \/ \E k \in Callers : PostSave(k) /\ Apart
  \/ \E k \in Callers : PostSaveSrc(k) /\ Apart
  \/ \E k \in Callers : PostAfterIngest(k) /\ Apart
  \/ \E k \in Callers : PostSaveDims(k) /\ Apart
  \/ \E k \in Callers : PostRespond(k) /\ Apart

PutStep ==
  \/ \E k \in Callers : PutFindPhoto(k) /\ Apart
  \/ \E k \in Callers : PutFindCollection(k) /\ Apart
  \/ \E k \in Callers : PutSave(k) /\ Apart
  \/ \E k \in Callers : PutAfterMove(k) /\ Apart
  \/ \E k \in Callers : PutReload(k) /\ Apart

DeleteStep ==
  \/ \E k \in Callers : DeleteFindPhoto(k) /\ Apart
  \/ \E k \in Callers : DeleteAfterRm(k) /\ Apart
  \/ \E k \in Callers : DeleteMeta(k) /\ Apart
  \/ \E k \in Callers : DeletePhoto(k) /\ Apart

(* An upload and collection changes of the photo it creates *)

InitPostPut ==
  /\ NotStarted
  /\ disk = <<>>
  /\ tmp = <<>>
  /\ call = [k \in Callers |-> Idle]
  /\ last = [x \in Items \cup Callers |-> NoCall]
  /\ ingested = {}
  /\ ncalls = 0
  /\ answer = NoAnswer
  /\ photos = <<>>
  /\ collections = BothCollections
  /\ req = [k \in Callers |-> NoRequest]

NextPostPut ==
  \/ \E id \in SoloItems, img \in Images : Upload(id, img) /\ Aside
  \/ \E k \in Callers, id \in SoloItems, g \in GroupArgs :
       req[k].pc = "idle" /\ PostArrive(k, id, g, "none") /\ Apart
  \/ PostStep
  \/ \E k \in Callers, id \in SoloItems, g \in PutCollectionIds :
       req[k].pc = "idle" /\ id \in DOMAIN photos /\ PutArrive(k, id, g) /\ Apart
  \/ PutStep
  \/ IngestStep
  \/ RelocateStep

SpecPostPut == InitPostPut /\ [][NextPostPut]_vars

(* A stored photo: its collection is changed while it is deleted *)

\* The record and the tree of photo id stored under collection c.
StoredRecord(id, c) == [i \in {id} |-> [collection |-> c, width |-> 4000, height |-> 3000]]
StoredTree(id, c) == TreeOf(getPhotoDir(c, id)[1], id, ItemFiles)

InitPutDelete ==
  /\ NotStarted
  /\ \E c \in CollectionIds \cup {NULL} :
       /\ disk = StoredTree("p1", c)
       /\ photos = StoredRecord("p1", c)
  /\ tmp = <<>>
  /\ call = [k \in Callers |-> Idle]
  /\ last = [x \in Items \cup Callers |-> NoCall]
  /\ ingested = {"p1"}
  /\ ncalls = 0
  /\ answer = NoAnswer
  /\ collections = BothCollections
  /\ req = [k \in Callers |-> NoRequest]

NextPutDelete ==
  \/ \E k \in Callers, id \in SoloItems, g \in PutCollectionIds :
       req[k].pc = "idle" /\ PutArrive(k, id, g) /\ Apart
  \/ PutStep
  \/ \E k \in Callers, id \in SoloItems : req[k].pc = "idle" /\ DeleteArrive(k, id) /\ Apart
  \/ DeleteStep
  \/ RelocateStep
  \/ DeleteRmStep

SpecPutDelete == InitPutDelete /\ [][NextPutDelete]_vars

----------------------------------------------------------------------------
(* DELETE /collections/:id and DELETE /collections/cleanup-empty *)

\* collection.photos as a query loads it: the photos whose collectionId is c.
PhotosOf(c) == {i \in DOMAIN photos : photos[i].collection = c}

\* The photos -> collections foreign key without its check on the parent row.
RejectsDelete_unconstrained(c) == FALSE

\* collectionRepository.delete(c) rejects while a photo row references c (the
\* foreign key of Photo.collection).
RejectsDelete(c) == PhotosOf(c) # {}

\* DELETE /collections/:id arrives and awaits collectionRepository.findOne.
DeleteCollectionArrive(k, c) ==
  /\ FreeSlots # {} /\ k = NextSlot
  /\ req' = [req EXCEPT ![k] =
               [NoRequest EXCEPT !.kind = "deleteCollection", !.pc = "dcFindOne",
                                 !.collectionId = c]]
  /\ UNCHANGED <<disk, tmp, call, last, ingested, ncalls, answer, photos, collections>>

\* findOne with relations ['photos'] settles: 404 without the collection, 400
\* when it has photos, otherwise delete is issued.
DeleteCollectionFindOne(k) ==
  LET q == req[k]
  IN  /\ q.kind = "deleteCollection" /\ q.pc = "dcFindOne"
      /\ req' = [req EXCEPT ![k] =
                   IF q.collectionId \notin DOMAIN collections THEN Respond(q, 404, 0, 0)
                   ELSE IF PhotosOf(q.collectionId) # {} THEN Respond(q, 400, 0, 0)
                   ELSE [q EXCEPT !.pc = "dcDelete"]]
      /\ UNCHANGED <<disk, tmp, call, last, ingested, ncalls, answer, photos, collections>>

\* await collectionRepository.delete(collection.id) settles: a rejection
\* answers 500, otherwise the row is gone and the answer is 200.
DeleteCollectionDelete(k) ==
  LET q == req[k]
  IN  /\ q.kind = "deleteCollection" /\ q.pc = "dcDelete"
      /\ IF RejectsDelete(q.collectionId)
         THEN /\ req' = [req EXCEPT ![k] = Respond(q, 500, 0, 0)]
              /\ UNCHANGED collections
         ELSE /\ collections' = [c \in DOMAIN collections \ {q.collectionId} |-> collections[c]]
              /\ req' = [req EXCEPT ![k] = Respond(q, 200, 0, 0)]
      /\ UNCHANGED <<disk, tmp, call, last, ingested, ncalls, answer, photos>>

\* DELETE /collections/cleanup-empty arrives and awaits getMany.
CleanupArrive(k) ==
  /\ FreeSlots # {} /\ k = NextSlot
  /\ req' = [req EXCEPT ![k] = [NoRequest EXCEPT !.kind = "cleanup", !.pc = "cuGetMany"]]
  /\ UNCHANGED <<disk, tmp, call, last, ingested, ncalls, answer, photos, collections>>

\* getMany settles: the collections without photos are to be deleted; the
\* first delete is issued, or with none the answer is 200.
CleanupGetMany(k) ==
  LET q == req[k]
      emptyCollections == {c \in DOMAIN collections : PhotosOf(c) = {}}
  IN  /\ q.kind = "cleanup" /\ q.pc = "cuGetMany"
      /\ req' = [req EXCEPT ![k] =
                   IF emptyCollections = {} THEN Respond(q, 200, 0, 0)
                   ELSE [q EXCEPT !.pc = "cuDelete", !.todo = emptyCollections]]
      /\ UNCHANGED <<disk, tmp, call, last, ingested, ncalls, answer, photos, collections>>

\* One await collectionRepository.delete(collection.id) of the loop settles
\* (getMany has no order, so any of the remaining ones): a rejection answers
\* 500, after the last one the answer is 200.
CleanupDelete(k, c) ==
  LET q == req[k]
  IN  /\ q.kind = "cleanup" /\ q.pc = "cuDelete"
      /\ c \in q.todo
      /\ IF RejectsDelete(c)
         THEN /\ req' = [req EXCEPT ![k] = Respond(q, 500, 0, 0)]
              /\ UNCHANGED collections
         ELSE /\ collections' = [x \in DOMAIN collections \ {c} |-> collections[x]]
              /\ req' = [req EXCEPT ![k] =
                           IF q.todo = {c} THEN Respond([q EXCEPT !.todo = {}], 200, 0, 0)
                           ELSE [q EXCEPT !.todo = @ \ {c}]]
      /\ UNCHANGED <<disk, tmp, call, last, ingested, ncalls, answer, photos>>

(* Collections deleted while photos are uploaded and moved *)

\* Photo p1 is stored under some collection or none, and an upload waits.
InitCollections ==
  /\ NotStarted
  /\ \/ \E c \in CollectionIds \cup {NULL} :
          /\ disk = StoredTree("p1", c)
          /\ photos = StoredRecord("p1", c)
          /\ ingested = {"p1"}
          /\ tmp = <<>>
     \/ /\ disk = <<>>
        /\ photos = <<>>
        /\ ingested = {}
        /\ tmp = [i \in {"p1"} |-> [w |-> 4000, h |-> 3000, o |-> 1]]
  /\ call = [k \in Callers |-> Idle]
  /\ last = [x \in Items \cup Callers |-> NoCall]
  /\ ncalls = 0
  /\ answer = NoAnswer
  /\ collections = BothCollections
  /\ req = [k \in Callers |-> NoRequest]

NextCollections ==
  \/ \E k \in Callers, id \in SoloItems, g \in GroupArgs :
       req[k].pc = "idle" /\ PostArrive(k, id, g, "none") /\ Apart
  \/ PostStep
  \/ \E k \in Callers, id \in SoloItems, g \in PutCollectionIds :
       req[k].pc = "idle" /\ PutArrive(k, id, g) /\ Apart
  \/ PutStep
  \/ IngestStep
  \/ RelocateStep
  \/ \E k \in Callers, c \in CollectionIds : req[k].pc = "idle" /\ DeleteCollectionArrive(k, c) /\ Apart
  \/ \E k \in Callers : DeleteCollectionFindOne(k) /\ Apart
  \/ \E k \in Callers : DeleteCollectionDelete(k) /\ Apart
  \/ \E k \in Callers : req[k].pc = "idle" /\ CleanupArrive(k) /\ Apart
  \/ \E k \in Callers : CleanupGetMany(k) /\ Apart
  \/ \E k \in Callers, c \in CollectionIds : CleanupDelete(k, c) /\ Apart

SpecCollections == InitCollections /\ [][NextCollections]_vars

----------------------------------------------------------------------------
(* POST /collections/get-or-create *)

CollectionNames == {"Travel", "Family"}

\* The collections named name (findOne({ where: { name } }) returns one).
NamedIn(table, name) == {c \in DOMAIN table : table[c] = name}
Named(name) == NamedIn(collections, name)

\* The name column without its unique index.
NameTaken_notUnique(name) == FALSE

\* Collection.name is unique: an insert of a name already present rejects.
NameTaken(name) == Named(name) # {}

\* The request arrives with a name and awaits collectionRepository.findOne.
GetOrCreateArrive(k, name) ==
  /\ FreeSlots # {} /\ k = NextSlot
  /\ req' = [req EXCEPT ![k] =
               [NoRequest EXCEPT !.kind = "getOrCreate", !.pc = "gcFindOne", !.name = name]]
  /\ UNCHANGED <<disk, tmp, call, last, ingested, ncalls, answer, photos, collections>>

\* findOne settles: a collection found is the answer, otherwise one is
\* created and save is issued.
GetOrCreateFindOne(k, c) ==
  LET q == req[k]
  IN  /\ q.kind = "getOrCreate" /\ q.pc = "gcFindOne"
      /\ IF Named(q.name) = {}
         THEN /\ c = NULL
              /\ req' = [req EXCEPT ![k] = [q EXCEPT !.pc = "gcSave"]]
         ELSE /\ c \in Named(q.name)
              /\ req' = [req EXCEPT ![k] = Respond([q EXCEPT !.collection = c], 200, 0, 0)]
      /\ UNCHANGED <<disk, tmp, call, last, ingested, ncalls, answer, photos, collections>>

\* await collectionRepository.save(collection) settles: the row is inserted
\* under a generated id and is the answer; a rejected insert answers 500.
GetOrCreateSave(k, id) ==
  LET q == req[k]
  IN  /\ q.kind = "getOrCreate" /\ q.pc = "gcSave"
      /\ IF NameTaken(q.name)
         THEN /\ id = NULL
              /\ req' = [req EXCEPT ![k] = Respond(q, 500, 0, 0)]
              /\ UNCHANGED collections
         ELSE /\ id \in CollectionIds \ DOMAIN collections
              /\ collections' = [c \in DOMAIN collections \cup {id} |->
                                   IF c = id THEN q.name ELSE collections[c]]
              /\ req' = [req EXCEPT ![k] = Respond([q EXCEPT !.collection = id], 200, 0, 0)]
      /\ UNCHANGED <<disk, tmp, call, last, ingested, ncalls, answer, photos>>

InitGetOrCreate ==
  /\ NotStarted
  /\ disk = <<>>
  /\ tmp = <<>>
  /\ call = [k \in Callers |-> Idle]
  /\ last = [x \in Items \cup Callers |-> NoCall]
  /\ ingested = {}
  /\ ncalls = 0
  /\ answer = NoAnswer
  /\ photos = <<>>
  /\ collections = <<>>
  /\ req = [k \in Callers |-> NoRequest]

NextGetOrCreate ==
  \/ \E k \in Callers, name \in CollectionNames : GetOrCreateArrive(k, name) /\ Apart
  \/ \E k \in Callers, c \in CollectionIds \cup {NULL} : GetOrCreateFindOne(k, c) /\ Apart
  \/ \E k \in Callers, id \in CollectionIds \cup {NULL} : GetOrCreateSave(k, id) /\ Apart

SpecGetOrCreate == InitGetOrCreate /\ [][NextGetOrCreate]_vars

----------------------------------------------------------------------------
(* apiKeyAuth and its cache of the stored hash *)

CACHE_TTL == 60000

\* The keys requests carry and set-api-key stores.
ApiKeys == {"key-A", "key-B"}

\* bcrypt.hash(apiKey) and bcrypt.compare(apiKey, hash).
BcryptHash(apiKey) == "$2b$12$" \o apiKey
BcryptCompare(apiKey, hash) == hash = BcryptHash(apiKey)

\* A request's slot before the request: nothing answered, next not called.
NoAuthRequest ==
  [pc |-> "idle", apiKey |-> NULL, now |-> 0, setting |-> NULL, storedHash |-> NULL,
   status |-> 0, nexts |-> 0]

\* The cache test of getApiKeyHash with the age of the cache ignored.
CacheValid_forever(now) == auth.cachedApiKeyHash # NULL

\* cachedApiKeyHash && (now - cacheTimestamp) < CACHE_TTL
CacheValid(now) == auth.cachedApiKeyHash # NULL /\ (now - auth.cacheTimestamp) < CACHE_TTL

\* What the settings row can hold: no row, or a hash.
Settings == {NULL} \cup {BcryptHash(apiKey) : apiKey \in ApiKeys}

\* The time of a setting that was never the stored one.
Never == 0 - CACHE_TTL

\* The clock advances; the setting stored now is the stored one at this
\* moment too (was: per setting, the latest moment it was the stored one).
Tick ==
  /\ auth.now < MaxTicks * TickMs
  /\ auth' = [auth EXCEPT !.now = @ + TickMs,
                          !.was[auth.setting] = auth.now + TickMs]
  /\ UNCHANGED <<disk, tmp, call, last, ingested, ncalls, answer, photos, collections, req,
                 carousel>>

\* The set-api-key script stores the hash of a new key.
SetApiKey(apiKey) ==
  /\ auth.setting # BcryptHash(apiKey)
  /\ auth.changes < MaxKeyChanges
  /\ auth' = [auth EXCEPT !.setting = BcryptHash(apiKey),
                          !.changes = @ + 1,
                          !.was[BcryptHash(apiKey)] = auth.now]
  /\ UNCHANGED <<disk, tmp, call, last, ingested, ncalls, answer, photos, collections, req,
                 carousel>>

\* A request reaches apiKeyAuth with its X-API-Key header (NULL: none).
\* Without a key it is answered 401.  Otherwise getApiKeyHash runs: a valid
\* cache is returned and bcrypt.compare is awaited, else findOne is awaited.
AuthArrive(k, apiKey) ==
  LET r == [NoAuthRequest EXCEPT !.apiKey = apiKey, !.now = auth.now]
  IN  /\ auth.run[k].pc = "idle"
      /\ auth' = [auth EXCEPT !.run[k] =
                    IF apiKey = NULL THEN [r EXCEPT !.pc = "done", !.status = 401]
                    ELSE IF CacheValid(auth.now)
                      THEN [r EXCEPT !.pc = "compare", !.storedHash = auth.cachedApiKeyHash]
                    ELSE [r EXCEPT !.pc = "findOne"]]
      /\ UNCHANGED <<disk, tmp, call, last, ingested, ncalls, answer, photos, collections, req,
                     carousel>>

\* The database runs the query: the row as it is now, or an error.
AuthFindOne(k, fail) ==
  LET r == auth.run[k]
  IN  /\ r.pc = "findOne"
      /\ auth' = [auth EXCEPT !.run[k] =
                    [r EXCEPT !.pc = "found",
                              !.setting = IF fail THEN "error" ELSE auth.setting]]
      /\ UNCHANGED <<disk, tmp, call, last, ingested, ncalls, answer, photos, collections, req,
                     carousel>>

\* await findOne settles in getApiKeyHash: a setting is cached under the
\* time taken before the await and returned, and bcrypt.compare is awaited;
\* no setting, or an error, returns null and the request is answered 500.
AuthFound(k) ==
  LET r == auth.run[k]
  IN  /\ r.pc = "found"
      /\ auth' = IF r.setting \in {NULL, "error"}
                 THEN [auth EXCEPT !.run[k] = [r EXCEPT !.pc = "done", !.status = 500]]
                 ELSE [auth EXCEPT !.cachedApiKeyHash = r.setting,
                                   !.cacheTimestamp = r.now,
                                   !.run[k] = [r EXCEPT !.pc = "compare",
                                                        !.storedHash = r.setting]]
      /\ UNCHANGED <<disk, tmp, call, last, ingested, ncalls, answer, photos, collections, req,
                     carousel>>

\* await bcrypt.compare settles: 401 for a key that does not match, next()
\* otherwise.
AuthCompare(k) ==
  LET r == auth.run[k]
  IN  /\ r.pc = "compare"
      /\ auth' = [auth EXCEPT !.run[k] =
                    IF BcryptCompare(r.apiKey, r.storedHash)
                    THEN [r EXCEPT !.pc = "done", !.nexts = @ + 1]
                    ELSE [r EXCEPT !.pc = "done", !.status = 401]]
      /\ UNCHANGED <<disk, tmp, call, last, ingested, ncalls, answer, photos, collections, req,
                     carousel>>

\* The process starts with an empty cache; a key may have been set.
InitAuth ==
  /\ \E setting \in {NULL, BcryptHash("key-A")} :
       auth = [now |-> 0, setting |-> setting, changes |-> 0,
               was |-> [h \in Settings |-> IF h = setting THEN 0 ELSE Never],
               cachedApiKeyHash |-> NULL, cacheTimestamp |-> 0,
               run |-> [k \in Callers |-> NoAuthRequest]]
  /\ carousel = Unused
  /\ disk = <<>>
  /\ tmp = <<>>
  /\ call = [k \in Callers |-> Idle]
  /\ last = [x \in Items \cup Callers |-> NoCall]
  /\ ingested = {}
  /\ ncalls = 0
  /\ answer = NoAnswer
  /\ photos = <<>>
  /\ collections = <<>>
  /\ req = [k \in Callers |-> NoRequest]

NextAuth ==
  \/ Tick
  \/ \E apiKey \in ApiKeys : SetApiKey(apiKey)
  \/ \E k \in Callers, apiKey \in ApiKeys \cup {NULL} : AuthArrive(k, apiKey)
  \/ \E k \in Callers, fail \in BOOLEAN : AuthFindOne(k, fail)
  \/ \E k \in Callers : AuthFound(k)
  \/ \E k \in Callers : AuthCompare(k)

SpecAuth == InitAuth /\ [][NextAuth]_vars

----------------------------------------------------------------------------
(* FeaturedComponent: the carousel of the featured page *)

\* In the component photos is the number of photos loaded, autoslideInterval
\* the timer id (0: null) and modalPhotoIndex the index (NoIndex: null);
\* timers is the set of the browser's active interval timers.
NoIndex == 0 - 1
UndefinedIndex == 0 - 2

\* this.displayOrder[i]: displayOrder is photos.map((_, i) => i).
DisplayOrder(c, i) == IF i >= 0 /\ i < c.photos THEN i ELSE UndefinedIndex

\* setInterval returns the id of a new timer.
NewTimer(c) == CHOOSE id \in 1..(Cardinality(c.timers) + 1) : id \notin c.timers

\* stopAutoslide() applied to component c.
StopAutoslide(c) ==
  [c EXCEPT !.timers = IF c.autoslideInterval # 0 THEN @ \ {c.autoslideInterval} ELSE @,
            !.autoslideInterval = 0,
            !.isPlaying = FALSE]

\* startAutoslide() applied to component c.
StartAutoslide(c) ==
  IF c.autoslideInterval # 0 THEN c
  ELSE IF DisplayOrder(c, c.currentIndex) = c.photos - 1 THEN [c EXCEPT !.isPlaying = FALSE]
  ELSE [c EXCEPT !.autoslideInterval = NewTimer(c),
                 !.timers = @ \cup {NewTimer(c)},
                 !.isPlaying = TRUE]

Rest == UNCHANGED <<disk, tmp, call, last, ingested, ncalls, answer, photos, collections,
                    req, auth>>

\* getFeaturedPhotos() emits the list: next of loadPhotos.
LoadPhotos(n) ==
  LET c == [carousel EXCEPT !.photos = n, !.loading = FALSE]
  IN  /\ carousel.loading
      /\ carousel' = IF n > 0 THEN StartAutoslide(c) ELSE c
      /\ Rest

\* getFeaturedPhotos() fails: error of loadPhotos.
LoadError ==
  /\ carousel.loading
  /\ carousel' = [carousel EXCEPT !.loading = FALSE]
  /\ Rest

goNext ==
  /\ carousel' = StopAutoslide(
                   IF carousel.currentIndex < carousel.photos - 1
                   THEN [carousel EXCEPT !.currentIndex = @ + 1] ELSE carousel)
  /\ Rest

goPrev ==
  /\ carousel' = StopAutoslide(
                   IF carousel.currentIndex > 0
                   THEN [carousel EXCEPT !.currentIndex = @ - 1] ELSE carousel)
  /\ Rest

togglePlayback ==
  /\ carousel' = IF carousel.isPlaying THEN StopAutoslide(carousel)
                 ELSE StartAutoslide(carousel)
  /\ Rest

startAutoslide ==
  /\ carousel' = StartAutoslide(carousel)
  /\ Rest

stopAutoslide ==
  /\ carousel' = StopAutoslide(carousel)
  /\ Rest

\* A click on the photo shown at displayIndex: the current one opens the
\* modal (openModal stops the autoslide), another one becomes current.
onPhotoClick(displayIndex) ==
  /\ displayIndex < carousel.photos
  /\ carousel' = IF displayIndex = carousel.currentIndex
                 THEN StopAutoslide([carousel EXCEPT
                                       !.modalPhotoIndex = DisplayOrder(carousel, displayIndex),
                                       !.modalOpen = TRUE])
                 ELSE [carousel EXCEPT !.currentIndex = displayIndex]
  /\ Rest

closeModal ==
  /\ carousel.modalOpen
  /\ carousel' = [carousel EXCEPT !.modalOpen = FALSE, !.modalPhotoIndex = NoIndex]
  /\ Rest

\* An active interval timer fires: the callback given to setInterval.  (The
\* index is followed up to MaxPhotos + 1.)
AutoslideTick(id) ==
  /\ id \in carousel.timers
  /\ carousel.currentIndex <= MaxPhotos
  /\ carousel' = IF DisplayOrder(carousel, carousel.currentIndex) = carousel.photos - 1
                 THEN StopAutoslide(carousel)
                 ELSE [carousel EXCEPT !.currentIndex = @ + 1]
  /\ Rest

\* The component as constructed, ngOnInit having called loadPhotos.
InitCarousel ==
  /\ carousel = [photos |-> 0, currentIndex |-> 0, loading |-> TRUE,
                 modalOpen |-> FALSE, modalPhotoIndex |-> NoIndex,
                 autoslideInterval |-> 0, isPlaying |-> FALSE, timers |-> {}]
  /\ auth = Unused
  /\ disk = <<>>
  /\ tmp = <<>>
  /\ call = [k \in Callers |-> Idle]
  /\ last = [x \in Items \cup Callers |-> NoCall]
  /\ ingested = {}
  /\ ncalls = 0
  /\ answer = NoAnswer
  /\ photos = <<>>
  /\ collections = <<>>
  /\ req = [k \in Callers |-> NoRequest]

NextCarousel ==
  \/ \E n \in 0..MaxPhotos : LoadPhotos(n)
  \/ LoadError
  \/ goNext
  \/ goPrev
  \/ togglePlayback
  \/ startAutoslide
  \/ stopAutoslide
  \/ \E displayIndex \in 0..(MaxPhotos - 1) : onPhotoClick(displayIndex)
  \/ closeModal
  \/ \E id \in 1..2 : AutoslideTick(id)

SpecCarousel == InitCarousel /\ [][NextCarousel]_vars

----------------------------------------------------------------------------
(* The image functions applied to source images *)

\* Source images: raw width and height from SourceDims, every EXIF orientation
\* (0: no tag).
SourceDims == {200, 300, 450, 1600, 4000}
Orientations == 0..8
SourceImages == [w : SourceDims, h : SourceDims, o : Orientations]

\* The configured sizes and three more: a target width, a long edge that lies
\* between the source sizes, and a size with none of height, width and
\* longEdge (all three are optional in ImageSizeConfig).
SizeSpecs ==
  {IMAGE_SIZES[i] : i \in DOMAIN IMAGE_SIZES}
    \cup { [name |-> "wide", height |-> 0, width |-> 500, longEdge |-> 0, quality |-> 80],
           [name |-> "edge", height |-> 0, width |-> 0, longEdge |-> 450, quality |-> 80],
           [name |-> "plain", height |-> 0, width |-> 0, longEdge |-> 0, quality |-> 80] }

\* The dimensions are read from a source image.
ReadDimensions(img) ==
  /\ answer' = [fn |-> "getOrientedDimensions", img |-> img,
                out |-> getOrientedDimensions(JpgNode(img))]
  /\ UNCHANGED <<disk, tmp, call, last, ingested, ncalls, photos, collections, req>>

\* One iteration of the size loop on a source image: the dimensions read
\* before the loop, the resize options, the rendered grid written as the
\* variant.  The loop body tests the three fields in turn and has no branch
\* that rejects a size.
RenderSize(img, size) ==
  LET dims == getOrientedDimensions(JpgNode(img))
      resizeOptions == ResizeOptions(size, dims.width, dims.height)
  IN  /\ answer' = [fn |-> "render", img |-> img, size |-> size, status |-> "ok",
                    out |-> Render(JpgNode(img), resizeOptions)]
      /\ UNCHANGED <<disk, tmp, call, last, ingested, ncalls, photos, collections, req>>

NextImage ==
  \/ \E img \in SourceImages : ReadDimensions(img) /\ Apart
  \/ \E img \in SourceImages, size \in SizeSpecs : RenderSize(img, size) /\ Apart

SpecImage == Init /\ [][NextImage]_vars

----------------------------------------------------------------------------
(* Properties *)

EarlySteps == {"mkdir", "copyFile", "unlink", "metadata"}
RenderSteps == {"thumb", "featured", "display"}
IngestOrder == <<"mkdir", "copyFile", "unlink", "metadata", "thumb", "featured", "display">>

Attempted(steps) == {steps[i].name : i \in DOMAIN steps}
Succeeded(steps) == {steps[i].name : i \in {j \in DOMAIN steps : steps[j].ok}}

\* Directory created, original copied, temp file removed, dimensions read.
EarlyOk(steps) == EarlySteps \subseteq Succeeded(steps)

\* The dimensions of the picture as a viewer shows it.
Oriented(node) ==
  IF node.o \in {5, 6, 7, 8} THEN [width |-> node.h, height |-> node.w]
  ELSE [width |-> node.w, height |-> node.h]

\* The files of a directory with their contents.
DirContent(d, dir) == [f \in FilesIn(d, dir) |-> d[Join(dir, f)]]

GroupDirsOf(id) == {s \in Segs : Exists(disk, <<s, id>>)}

\* The step sequences of the ingest calls, in flight and completed.
IngestSteps ==
  {call[k].steps : k \in {j \in Callers : call[j].op = "ingest"}}
    \cup {last[id].steps : id \in {i \in Items : last[i].op = "ingest"}}

\* C1: in a completed ingest whose directory, copy, unlink and dimension steps
\* succeeded, every configured size (thumb, featured, display) has a render
\* attempt, whichever renders failed.
C1_EverySizeAttempted ==
  \A id \in Items :
    (last[id].op = "ingest" /\ EarlyOk(last[id].steps))
      => RenderSteps \subseteq Attempted(last[id].steps)

\* C2: a completed ingest whose directory, copy, unlink and dimension steps
\* succeeded returns the oriented dimensions and does not fail, whichever
\* renders failed.
C2_IngestReturnsDimensions ==
  \A id \in Items :
    LET r == last[id]
        original == Join(getPhotoDir(r.a, id), originalFilename)
    IN  (r.op = "ingest" /\ EarlyOk(r.steps) /\ Free(id) /\ Exists(disk, original))
          => r.status = "ok" /\ r.value = Oriented(disk[original])

\* C3: when the directory creation, the copy, the removal of the temp file or
\* the dimension read fails, the ingest call fails with that error and
\* attempts nothing after it (no render): the failed step is the call's last
\* step, and no call goes on past one.
C3_EarlyFailureIsFatal ==
  /\ \A k \in Callers :
       call[k].op = "ingest" =>
         \A i \in DOMAIN call[k].steps :
           call[k].steps[i].name \in EarlySteps => call[k].steps[i].ok
  /\ \A id \in Items :
       LET r == last[id]
       IN  r.op = "ingest" =>
             \A i \in DOMAIN r.steps :
               (r.steps[i].name \in EarlySteps /\ ~r.steps[i].ok)
                 => /\ r.status = "error"
                    /\ r.err = r.steps[i].name
                    /\ i = Len(r.steps)
                    /\ Attempted(r.steps) \cap RenderSteps = {}

C3_Witness ==
  \E id \in Items :
    /\ last[id].op = "ingest"
    /\ Len(last[id].steps) = 4
    /\ last[id].steps[4] = [name |-> "metadata", ok |-> FALSE]
    /\ last[id].status = "error"

\* C4: the steps of an ingest call happen in the order mkdir, copyFile,
\* unlink, metadata, thumb, featured, display, each at most once; a render is
\* attempted only after the copy and the dimension read succeeded, with
\* original.jpg in place and the dimensions known.
C4_StepsInOrder ==
  /\ \A s \in IngestSteps :
       /\ Len(s) <= Len(IngestOrder)
       /\ \A i \in DOMAIN s : s[i].name = IngestOrder[i]
       /\ Attempted(s) \cap RenderSteps # {}
            => {"mkdir", "copyFile", "metadata"} \subseteq Succeeded(s)
  /\ \A k \in Callers :
       (call[k].op = "ingest" /\ call[k].pc = "render")
         => /\ Exists(disk, Join(getPhotoDir(call[k].a, call[k].id), originalFilename))
            /\ call[k].dims # NoValue

C4_Witness ==
  \E id \in Items :
    /\ last[id].op = "ingest"
    /\ last[id].status = "ok"
    /\ Len(last[id].steps) = Len(IngestOrder)

\* C5: an item's directory exists under at most one group directory.
C5_OneGroupPerItem ==
  \A id \in Items : Cardinality(GroupDirsOf(id)) <= 1

C5_Witness ==
  \E id \in Items :
    LET r == last[id]
    IN  /\ r.op = "relocate"
        /\ Free(id)
        /\ "rename" \in Succeeded(r.steps)
        /\ GroupDirsOf(id) = {getPhotoDir(r.b, id)[1]}
        /\ getPhotoDir(r.a, id) \in DOMAIN r.pre

\* C6: when no call on an item is in flight, every directory of the item
\* that exists contains original.jpg.
C6_NoPartialItemDir ==
  \A id \in Items : \A s \in Segs :
    (Free(id) /\ Exists(disk, <<s, id>>))
      => Exists(disk, <<s, id, originalFilename>>)

\* C7: a relocate whose resolved old and new paths are equal, or whose old
\* item directory does not exist, changes nothing in the tree at any of its
\* steps and returns without an error.
C7_RelocateNoop ==
  [][ /\ \A k \in Callers :
           LET c == call[k]
               oldDir == getPhotoDir(c.a, c.id)
               newDir == getPhotoDir(c.b, c.id)
           IN  (/\ c.op = "relocate"
                /\ call'[k] # c
                /\ (oldDir = newDir \/ ~Exists(disk, oldDir)))
                 => /\ disk' = disk
                    /\ call'[k].op = "idle"
                    /\ last'[c.id].status = "ok"
      /\ (ncalls' # ncalls /\ call' = call) => disk' = disk
      /\ \A id \in Items :
           LET r == last'[id]
               oldDir == getPhotoDir(r.a, id)
               newDir == getPhotoDir(r.b, id)
           IN  (r.op = "relocate" /\ (oldDir = newDir \/ oldDir \notin DOMAIN r.pre))
                 => r.status = "ok" /\ (Free(id)' => ItemTree(disk', id) = r.pre)
    ]_vars

C7_Witness ==
  \E id \in Items :
    LET r == last[id]
        oldDir == getPhotoDir(r.a, id)
        newDir == getPhotoDir(r.b, id)
    IN  /\ r.op = "relocate"
        /\ Free(id)
        /\ oldDir # newDir
        /\ oldDir \notin DOMAIN r.pre
        /\ r.pre # <<>>
        /\ r.status = "ok"
        /\ ItemTree(disk, id) = r.pre

\* C8: after a relocate whose old item directory existed and whose resolved
\* paths differ, the new item directory holds exactly the files the old one
\* held and the old item directory is gone.
C8_RelocateMovesAllFiles ==
  \A id \in Items :
    LET r == last[id]
        oldDir == getPhotoDir(r.a, id)
        newDir == getPhotoDir(r.b, id)
    IN  (r.op = "relocate" /\ Free(id) /\ oldDir # newDir /\ oldDir \in DOMAIN r.pre)
          => /\ ~Exists(disk, oldDir)
             /\ Exists(disk, newDir)
             /\ DirContent(disk, newDir) = DirContent(r.pre, oldDir)

\* C9: relocate(A, B, id) directly followed by relocate(B, A, id), for an item
\* stored under A (original.jpg there) with no directory under B, leaves the
\* item's tree as it was before the first call: the same files at A's path
\* and no directory under B.
C9_RoundTrip ==
  [][ \A k \in Callers :
        LET c == call[k]
            r == last[c.id]
            dirA == getPhotoDir(c.b, c.id)
            dirB == getPhotoDir(c.a, c.id)
        IN  (/\ c.op = "relocate"
             /\ call'[k].op = "idle"
             /\ r.op = "relocate"
             /\ getPhotoDir(r.a, c.id) = dirA
             /\ getPhotoDir(r.b, c.id) = dirB
             /\ dirA # dirB
             /\ Join(dirA, originalFilename) \in DOMAIN r.pre
             /\ dirB \notin DOMAIN r.pre)
              => ItemTree(disk', c.id) = r.pre
    ]_vars

\* C10: a deleteAll that returns normally leaves nothing at the resolved item
\* directory and touches nothing else; on a directory that does not exist it
\* returns normally and changes nothing.
C10_DeleteAllIdempotent ==
  [][ \A k \in Callers :
        LET c == call[k]
            dir == getPhotoDir(c.a, c.id)
            r == last'[c.id]
        IN  (c.op = "deleteAll" /\ call'[k].op = "idle")
              => /\ r.status = "ok"
                      => /\ Under(disk', dir) = {}
                         /\ disk' = Restrict(disk, {q \in DOMAIN disk : ~IsPrefix(dir, q)})
                 /\ ~Exists(disk, dir) => (r.status = "ok" /\ disk' = disk)
    ]_vars

C10_Witness ==
  \E id \in Items :
    LET r == last[id]
        dir == getPhotoDir(r.a, id)
    IN  /\ r.op = "deleteAll"
        /\ r.status = "ok"
        /\ Free(id)
        /\ id \in ingested
        /\ id \notin DOMAIN tmp
        /\ dir \notin DOMAIN r.pre
        /\ ItemTree(disk, id) = r.pre

\* C11: the path getImagePath returns equals the reference resolution for
\* every combination of present and absent files in the item directory:
\* for 'original' the original's path when original.jpg exists, else null;
\* for another size name the variant's path when <size>.webp exists, else the
\* original's path when original.jpg exists, else null.
C11_ResolvePathReference ==
  answer.fn = "getImagePath" =>
    LET dir == <<IF answer.collectionId \in {NULL, ""} THEN "_uncategorized"
                 ELSE answer.collectionId, answer.photoId>>
        has(f) == f \in FilesIn(answer.tree, dir)
        variant == answer.size \o ".webp"
    IN  \/ answer.size # "original" /\ has(variant)
             /\ answer.out = dir \o <<variant>>
        \/ (answer.size = "original" \/ ~has(variant)) /\ has("original.jpg")
             /\ answer.out = dir \o <<"original.jpg">>
        \/ (answer.size = "original" \/ ~has(variant)) /\ ~has("original.jpg")
             /\ answer.out = NoPath

C11_Witness ==
  /\ answer.fn = "getImagePath"
  /\ answer.size = "featured"
  /\ FilesIn(answer.tree, <<"c1", "p1">>) = {"original.jpg", "thumb.webp"}
  /\ answer.out = <<"c1", "p1", "original.jpg">>

\* C12: once an ingest has placed original.jpg, and after every later
\* relocate of the item from the group it is stored under to another group,
\* getImagePath called with the item's current group (the ingest's group, then
\* the new group of the relocate) returns a path for thumb, featured, display
\* and original, whichever variants are missing.
C12_ResolvesWhileStored ==
  \A id \in Items : \A size \in {"thumb", "featured", "display", "original"} :
    LET r == last[id]
    IN  Free(id) =>
          /\ (r.op = "ingest" /\ "copyFile" \in Succeeded(r.steps))
                => getImagePath(disk, r.a, id, size) # NoPath
          /\ (r.op = "relocate" /\ getImagePath(r.pre, r.a, id, size) # NoPath)
                => getImagePath(disk, r.b, id, size) # NoPath

\* C13: getPhotoDir returns <root>/<groupId>/<itemId> for a non-empty groupId
\* and <root>/_uncategorized/<itemId> for null and for the empty string, and a
\* second call with the same arguments returns the same path whatever deleteAll
\* has done to the tree in between.
C13_ResolveIsPure ==
  [][ answer'.fn = "getPhotoDir" =>
        LET g == answer'.collectionId
            groupDir == CASE g = "c1" -> "c1"
                          [] g = "c2" -> "c2"
                          [] g = "" -> "_uncategorized"
                          [] g = NULL -> "_uncategorized"
        IN  /\ answer'.out = <<groupDir, answer'.photoId>>
            /\ (/\ answer.fn = "getPhotoDir"
                /\ answer.collectionId = g
                /\ answer.photoId = answer'.photoId) => answer'.out = answer.out
    ]_vars

C13_Witness ==
  /\ answer.fn = "getPhotoDir"
  /\ answer.collectionId = ""
  /\ answer.out = <<"_uncategorized", "p1">>
  /\ last["p1"].op = "deleteAll"
  /\ last["p1"].status = "ok"
  /\ <<"_uncategorized", "p1">> \in DOMAIN last["p1"].pre
  /\ ~Exists(disk, <<"_uncategorized", "p1">>)

Min(a, b) == IF a <= b THEN a ELSE b
Max(a, b) == IF a >= b THEN a ELSE b

\* C14: the dimensions read from a source are the raw width and height swapped
\* for exactly the orientations 5, 6, 7 and 8, and unswapped for 1, 2, 3, 4
\* and for a source with no orientation tag.
C14_SwapFor5To8 ==
  answer.fn = "getOrientedDimensions" =>
    LET i == answer.img
    IN  /\ i.o \in {5, 6, 7, 8} => answer.out = [width |-> i.h, height |-> i.w]
        /\ i.o \in {0, 1, 2, 3, 4} => answer.out = [width |-> i.w, height |-> i.h]

C14_Witness ==
  /\ answer.fn = "getOrientedDimensions"
  /\ answer.img = [w |-> 300, h |-> 4000, o |-> 5]
  /\ answer.out = [width |-> 4000, height |-> 300]

\* C15: for a size with target height H and a source of oriented size W x Ht,
\* the variant's height is min(H, Ht), its width is W * min(H, Ht) / Ht rounded
\* to the nearest integer, and neither exceeds the source's.
C15_TargetHeight ==
  (answer.fn = "render" /\ answer.size.height # 0) =>
    LET src == Oriented(JpgNode(answer.img))
        hh == Min(answer.size.height, src.height)
        diff == answer.out.width * src.height - src.width * hh
    IN  /\ answer.out.height = hh
        /\ 2 * diff <= src.height /\ 2 * diff >= - src.height
        /\ answer.out.width <= src.width
        /\ answer.out.height <= src.height

C15_Witness ==
  /\ answer.fn = "render"
  /\ answer.size.height = 600
  /\ answer.img = [w |-> 450, h |-> 200, o |-> 8]
  /\ answer.out = [width |-> 200, height |-> 450]

\* C16: for a size with target long edge L (and no target height or width),
\* a source whose oriented width is at least its height gets a variant of
\* width min(L, width), any other source a variant of height min(L, height);
\* the larger dimension of the variant is min(L, the source's long edge).
C16_TargetLongEdge ==
  (/\ answer.fn = "render"
   /\ answer.size.height = 0 /\ answer.size.width = 0 /\ answer.size.longEdge # 0) =>
    LET src == Oriented(JpgNode(answer.img))
        L == answer.size.longEdge
    IN  /\ src.width >= src.height => answer.out.width = Min(L, src.width)
        /\ src.width < src.height => answer.out.height = Min(L, src.height)
        /\ Max(answer.out.width, answer.out.height) = Min(L, Max(src.width, src.height))

C16_Witness ==
  /\ answer.fn = "render"
  /\ answer.size.longEdge = 1600
  /\ answer.img = [w |-> 4000, h |-> 1600, o |-> 6]
  /\ answer.out = [width |-> 640, height |-> 1600]

\* C17: after an ingest in which every render succeeded, the item directory
\* holds exactly original.jpg, thumb.webp, featured.webp and display.webp; for
\* a 4000x3000 upload with orientation 1 ingested with group null, that
\* directory is _uncategorized/<item>, the variants are 400x300, 800x600 and
\* 1600x1200, and the call returned {4000, 3000}.
C17_FullVariantSet ==
  \A id \in Items :
    LET r == last[id]
        dir == getPhotoDir(r.a, id)
    IN  (r.op = "ingest" /\ Free(id) /\ RenderSteps \subseteq Succeeded(r.steps))
          => /\ FilesIn(disk, dir) = {"original.jpg", "thumb.webp", "featured.webp", "display.webp"}
             /\ (r.a = NULL /\ disk[Join(dir, "original.jpg")] = JpgNode([w |-> 4000, h |-> 3000, o |-> 1]))
                  => /\ dir = <<"_uncategorized", id>>
                     /\ disk[Join(dir, "thumb.webp")] = [kind |-> "webp", w |-> 400, h |-> 300, o |-> 0]
                     /\ disk[Join(dir, "featured.webp")] = [kind |-> "webp", w |-> 800, h |-> 600, o |-> 0]
                     /\ disk[Join(dir, "display.webp")] = [kind |-> "webp", w |-> 1600, h |-> 1200, o |-> 0]
                     /\ r.status = "ok"
                     /\ r.value = [width |-> 4000, height |-> 3000]

C17_Witness ==
  \E id \in Items :
    /\ last[id].op = "ingest"
    /\ last[id].a = NULL
    /\ Free(id)
    /\ RenderSteps \subseteq Succeeded(last[id].steps)
    /\ Exists(disk, <<"_uncategorized", id, "original.jpg">>)
    /\ disk[<<"_uncategorized", id, "original.jpg">>].o = 1

\* C18: an upload whose raw grid is 3000x4000 with orientation 6 is ingested
\* as the 4000x3000 picture it shows: the call returns {4000, 3000} and the
\* variants have the dimensions of those of an upright 4000x3000 upload
\* (400x300, 800x600, 1600x1200).
C18_OrientationSix ==
  \A id \in Items :
    LET r == last[id]
        dir == getPhotoDir(r.a, id)
        variant(name) == [width |-> disk[Join(dir, name)].w, height |-> disk[Join(dir, name)].h]
    IN  (/\ r.op = "ingest" /\ r.status = "ok" /\ Free(id)
         /\ Exists(disk, Join(dir, "original.jpg"))
         /\ disk[Join(dir, "original.jpg")] = [kind |-> "jpg", w |-> 3000, h |-> 4000, o |-> 6])
          => /\ r.value = [width |-> 4000, height |-> 3000]
             /\ variant("thumb.webp") = [width |-> 400, height |-> 300]
             /\ variant("featured.webp") = [width |-> 800, height |-> 600]
             /\ variant("display.webp") = [width |-> 1600, height |-> 1200]

C18_Witness ==
  \E id \in Items :
    /\ last[id].op = "ingest"
    /\ last[id].status = "ok"
    /\ Free(id)
    /\ Exists(disk, <<"c2", id, "original.jpg">>)
    /\ disk[<<"c2", id, "original.jpg">>].o = 6
    /\ disk[<<"c2", id, "display.webp">>].w = 1600

\* What a call of processImage(temp, g, id) running alone leaves in the item's
\* tree after the awaited operations in steps, with their outcomes: the
\* directory once mkdir succeeded, original.jpg once the copy succeeded, one
\* variant per render that succeeded.
AloneTree(id, g, steps) ==
  LET dir == <<IF g \in {NULL, ""} THEN "_uncategorized" ELSE g, id>>
      done == Succeeded(steps)
      source == JpgNode(TwoUploads[id])
      dims == getOrientedDimensions(source)
      sizeOf(f) == CHOOSE i \in DOMAIN IMAGE_SIZES : VariantFile(IMAGE_SIZES[i].name) = f
      paths == (IF "mkdir" \in done THEN {dir} ELSE {})
                 \cup (IF "copyFile" \in done THEN {Join(dir, originalFilename)} ELSE {})
                 \cup {Join(dir, VariantFile(n)) : n \in RenderSteps \cap done}
  IN  [q \in paths |->
         IF q = dir THEN DirNode
         ELSE IF q[3] = originalFilename THEN source
         ELSE WebpNode(Render(source, ResizeOptions(IMAGE_SIZES[sizeOf(q[3])],
                                                    dims.width, dims.height)))]

\* What that call returns: the oriented dimensions when all steps succeeded,
\* otherwise the rejection of the step that failed.
AloneResult(id, steps) ==
  IF \A i \in DOMAIN steps : steps[i].ok
  THEN [status |-> "ok", err |-> "", value |-> getOrientedDimensions(JpgNode(TwoUploads[id]))]
  ELSE [status |-> "error", value |-> NoValue,
        err |-> steps[CHOOSE i \in DOMAIN steps : ~steps[i].ok].name]

\* C19: two ingest calls for different items interleaved at every awaited
\* operation behave as two calls run one after the other: at every moment each
\* item's tree is what its own call alone has produced so far, and each call's
\* return value is the one it returns alone.
C19_IngestsIndependent ==
  /\ \A k \in Callers :
       call[k].op = "ingest" =>
         ItemTree(disk, call[k].id) = AloneTree(call[k].id, call[k].a, call[k].steps)
  /\ \A id \in Items :
       LET r == last[id]
       IN  r.op = "ingest" =>
             /\ ItemTree(disk, id) = AloneTree(id, r.a, r.steps)
             /\ [status |-> r.status, err |-> r.err, value |-> r.value] = AloneResult(id, r.steps)
             /\ r.status = "ok" => Len(r.steps) = Len(IngestOrder)

C19_Witness ==
  /\ call["k1"].op = "ingest" /\ call["k1"].id = "p2" /\ call["k1"].a = "c1"
  /\ call["k2"].op = "ingest" /\ call["k2"].id = "p1" /\ call["k2"].a = "c1"
  /\ call["k1"].pc = "render" /\ call["k1"].idx = 2
  /\ call["k2"].pc = "render" /\ call["k2"].idx = 3
  /\ disk[<<"c1", "p2", "thumb.webp">>].w = 1067
  /\ disk[<<"c1", "p1", "featured.webp">>].w = 800

C21_CopyThenDelete ==
  /\ \A k \in Callers :
       LET c == call[k]
           original == Join(getPhotoDir(c.a, c.id), originalFilename)
       IN  c.op = "ingest" =>
             /\ c.id \in DOMAIN tmp \/ Exists(disk, original)
             /\ (c.id \in DOMAIN tmp /\ Exists(disk, original))
                  => disk[original] = JpgNode(tmp[c.id])
             /\ c.id \notin DOMAIN tmp => "copyFile" \in Succeeded(c.steps)
  /\ \A id \in Items :
       LET r == last[id]
           original == Join(getPhotoDir(r.a, id), originalFilename)
       IN  (r.op = "ingest" /\ Free(id)) =>
             /\ id \in DOMAIN tmp \/ Exists(disk, original)
             /\ id \notin DOMAIN tmp => "copyFile" \in Succeeded(r.steps)
             /\ r.status = "ok" => id \notin DOMAIN tmp

C21_Witness ==
  \E id \in Items :
    /\ last[id].op = "ingest"
    /\ last[id].status = "error"
    /\ last[id].err = "unlink"
    /\ Free(id)
    /\ id \in DOMAIN tmp
    /\ Exists(disk, Join(getPhotoDir(last[id].a, id), originalFilename))

\* C24: a relocate that returns normally, whose old item directory existed
\* when it was called and whose resolved paths differ, has the item's files at
\* the new path and none at the old one; a relocate whose mkdir of the new
\* group directory or whose rename failed does not return normally.
C24_RelocateReportsFailure ==
  \A id \in Items :
    LET r == last[id]
        oldDir == getPhotoDir(r.a, id)
        newDir == getPhotoDir(r.b, id)
    IN  (r.op = "relocate" /\ Free(id)) =>
          /\ (r.status = "ok" /\ oldDir # newDir /\ oldDir \in DOMAIN r.pre)
                => /\ Under(disk, oldDir) = {}
                   /\ FilesIn(disk, newDir) = FilesIn(r.pre, oldDir)
          /\ (\E i \in DOMAIN r.steps :
                 r.steps[i].name \in {"mkdir", "rename"} /\ ~r.steps[i].ok)
                => r.status = "error"

C27_RecordIffOriginal ==
  \A k \in Callers :
    LET q == req[k]
        original == Join(getPhotoDir(q.collection, q.id), originalFilename)
    IN  (q.pc = "done" /\ q.kind = "post") =>
          /\ q.id \in DOMAIN photos <=> Exists(disk, original)
          /\ q.status >= 400 => q.id \notin DOMAIN photos

\* C25: once an upload (answered 201) and a collection change (answered 200)
\* of the same photo have both completed, whatever their interleaving, the
\* photo's files are found at the directory resolved from the recorded
\* collection.
C25_DirectoryFollowsRecord ==
  \A k \in Callers, j \in Callers :
    (/\ req[k].kind = "post" /\ req[k].pc = "done" /\ req[k].status = 201
     /\ req[j].kind = "put" /\ req[j].pc = "done" /\ req[j].status = 200
     /\ req[j].id = req[k].id
     /\ req[j].old # PutNewCollectionId(req[j])
     /\ req[k].id \in DOMAIN photos)
    => getImagePath(disk, photos[req[k].id].collection, req[k].id, "original") # NoPath

\* C26: once a DELETE and a collection change of the same photo have both
\* completed, whatever their interleaving, and the record is deleted, no
\* directory of that photo remains under any group.
C26_NoOrphanDirectory ==
  \A k \in Callers, j \in Callers :
    (/\ req[k].kind = "delete" /\ req[k].pc = "done"
     /\ req[j].kind = "put" /\ req[j].pc = "done"
     /\ req[j].id = req[k].id
     /\ req[k].id \notin DOMAIN photos)
    => ItemTree(disk, req[k].id) = <<>>

\* C23: whatever the interleaving with uploads and collection changes, a
\* step removes a collection only when no photo record references it, every
\* photo record's collection exists, and a DELETE /collections/:id whose
\* findOne finds photos answers 400 and leaves the collection in place.
C23_DeletedOnlyWhenEmpty ==
  [][/\ \A c \in DOMAIN collections \ DOMAIN collections' :
          PhotosOf(c) = {} /\ \A i \in DOMAIN photos' : photos'[i].collection # c
     /\ \A i \in DOMAIN photos' : photos'[i].collection \in DOMAIN collections' \cup {NULL}
     /\ \A k \in Callers :
          (/\ req[k].kind = "deleteCollection" /\ req[k].pc = "dcFindOne"
           /\ req'[k] # req[k]
           /\ PhotosOf(req[k].collectionId) # {})
          => /\ req'[k].pc = "done" /\ req'[k].status = 400
             /\ collections' = collections]_vars

\* A DELETE /collections/:id that found the collection empty was overtaken
\* by a photo saved into it: the delete was rejected and the collection stays.
C23_Witness ==
  \E k \in Callers, j \in Callers :
    /\ req[k].kind = "deleteCollection" /\ req[k].pc = "done" /\ req[k].status = 500
    /\ req[j].kind \in {"post", "put"} /\ req[j].pc = "done" /\ req[j].status \in {200, 201}
    /\ req[j].id \in PhotosOf(req[k].collectionId)
    /\ req[k].collectionId \in DOMAIN collections

\* C28: whatever the interleaving of get-or-create requests, at most one
\* collection has a given name, every request answered successfully returned
\* the id of the one collection with its name, and a request that finds the
\* name creates nothing.
C28_OneCollectionPerName ==
  [][/\ \A name \in CollectionNames : Cardinality(NamedIn(collections', name)) <= 1
     /\ \A k \in Callers :
          (req'[k].kind = "getOrCreate" /\ req'[k].pc = "done" /\ req'[k].status = 200)
          => NamedIn(collections', req'[k].name) = {req'[k].collection}
     /\ \A k \in Callers :
          (req[k].pc = "gcFindOne" /\ req'[k] # req[k] /\ Named(req[k].name) # {})
          => collections' = collections /\ req'[k].status = 200]_vars

\* Two requests with one name both missed it at findOne; one created the
\* collection and the other's insert was rejected.
C28_Witness ==
  \E k \in Callers, j \in Callers :
    /\ req[k].kind = "getOrCreate" /\ req[k].pc = "done" /\ req[k].status = 200
    /\ req[j].kind = "getOrCreate" /\ req[j].pc = "done" /\ req[j].status = 500
    /\ req[j].name = req[k].name
    /\ Named(req[k].name) = {req[k].collection}

\* C29: next is called, once, only for a request whose key matches a hash
\* that was the stored api_key_hash at some moment later than 60 seconds
\* before the request's time stamp (its Date.now() in getApiKeyHash) and not
\* later than now; a request answered 401 or 500 never has next called, and a
\* request without a key, with a key that does not match the hash it was
\* given, or given no hash is answered 401, 401 and 500.
C29_NextOnlyForRecentHash ==
  \A k \in Callers :
    LET r == auth.run[k]
    IN  /\ r.nexts <= 1
        /\ r.nexts = 1 =>
             /\ r.pc = "done" /\ r.status = 0
             /\ r.apiKey # NULL
             /\ BcryptCompare(r.apiKey, r.storedHash)
             /\ r.now - auth.was[r.storedHash] < CACHE_TTL
             /\ auth.was[r.storedHash] <= auth.now
        /\ r.pc = "done" =>
             /\ (r.nexts = 0) = (r.status \in {401, 500})
             /\ r.apiKey = NULL => r.status = 401
             /\ (r.apiKey # NULL /\ r.storedHash = NULL) => r.status = 500
             /\ (r.storedHash # NULL /\ ~BcryptCompare(r.apiKey, r.storedHash)) => r.status = 401

\* A request passed on the cached hash of a key that is no longer the stored
\* one, 40 seconds after the cache was filled.
C29_Witness ==
  \E k \in Callers :
    LET r == auth.run[k]
    IN  /\ r.pc = "done" /\ r.nexts = 1
        /\ auth.setting # r.storedHash
        /\ r.now - auth.cacheTimestamp = 2 * TickMs
        /\ r.setting = NULL

\* C30: once the photo list is loaded, the empty one included, whatever the
\* sequence of goNext, goPrev, togglePlayback, startAutoslide, stopAutoslide,
\* modal open and close and timer ticks, currentIndex is within
\* 0 .. max(0, photos.length - 1), at most one autoslide timer is active, and
\* isPlaying is true exactly when a timer is active.
C30_CarouselInvariant ==
  ~carousel.loading =>
    /\ carousel.currentIndex \in 0..Max(0, carousel.photos - 1)
    /\ Cardinality(carousel.timers) <= 1
    /\ carousel.isPlaying = (carousel.timers # {})

====
